---------------------------- MODULE Spec2Model ----------------------------
(***************************************************************************)
(* A model of the voxworld world-simulation core:                          *)
(*   - the streaming scheduler (src/voxel/systems.rs, loading.rs), whose   *)
(*     seven systems run chained once per frame (src/voxel/plugin.rs);     *)
(*   - the simulation pipeline (src/voxel/domains), whose stages run in a  *)
(*     fixed order once per fixed tick.                                    *)
(* Spec is the streaming scheduler, SimSpec the simulation pipeline.       *)
(*                                                                         *)
(* Scaling.  The chunk edge, the render distance and the task limit are    *)
(* scaled down from the program's values (16, 8, 16); the code is the same *)
(* for every value.  Time is counted in hundredths of a second.            *)
(***************************************************************************)
EXTENDS Integers, Sequences, FiniteSets, TLC

VARIABLES
    camera,                 \* Transform of the Camera3d entity
    chunks,                 \* VoxelWorld.chunks: ChunkPos -> ChunkData
    loaded_chunks,          \* VoxelWorld.loaded_chunks: ChunkPos -> Entity
    to_load,                \* ChunkLoadQueue.to_load
    to_unload,              \* ChunkLoadQueue.to_unload
    active_tasks,           \* ChunkLoadQueue.active_tasks
    pending_placeholders,   \* ChunkLoadQueue.pending_placeholders
    placeholders,           \* PlaceholderEntities.map: ChunkPos -> Entity
    tasks,                  \* the ComputeMeshTask entities, in table order
    completed,              \* ChunkReplacementBuffer.completed
    timer,                  \* ChunkReplacementBuffer.timer
    entities,               \* the live entities of the ECS world
    next_entity,            \* the next entity id the ECS world hands out
    placeholder_alive,      \* the live entities spawn_batch_placeholders made
    pc,                     \* the system of the Update chain that runs next
    frame,                  \* frames started so far
    moved,                  \* the system before which player_move ran in
                            \* this frame, or "no"
    commands,               \* CommandQueue.commands
    drained,                \* the commands commit_system took in this tick
    sim_pc,                 \* the system of the fixed tick that runs next
    tick,                   \* fixed ticks started so far
    call,                   \* the direct call of the voxel API made last,
                            \* with its arguments and locals
    ret,                    \* what that call returned
    calls                   \* direct calls made so far

vars == << camera, chunks, loaded_chunks, to_load, to_unload, active_tasks,
           pending_placeholders, placeholders, tasks, completed, timer,
           entities, next_entity, placeholder_alive, pc, frame, moved,
           commands, drained,
           sim_pc, tick, call, ret, calls >>

streamVars == << camera, loaded_chunks, to_load, to_unload, active_tasks,
                 pending_placeholders, placeholders, tasks, completed, timer,
                 entities, next_entity, placeholder_alive, pc, frame,
                 moved >>

simVars == << commands, drained, sim_pc, tick >>

apiVars == << call, ret, calls >>

---------------------------------------------------------------------------
(* Bounds and program constants                                            *)

\* constants.rs: CHUNK_SIZE = 16, scaled.
CHUNK_SIZE == 2

\* constants.rs: RENDER_DISTANCE = 8, scaled.
RENDER_DISTANCE == 2

\* constants.rs: VERTICAL_RENDER_DISTANCE = 4, half the horizontal distance.
VERTICAL_RENDER_DISTANCE == RENDER_DISTANCE \div 2

\* loading.rs: ChunkLoadQueue::default, max_concurrent_tasks = 16, scaled.
max_concurrent_tasks == 2

\* loading.rs: ChunkReplacementBuffer::default, min_batch_size = 3.
min_batch_size == 3

\* loading.rs: ChunkReplacementBuffer::default, interval = 0.3 s.
interval == 30

\* Frames of one behaviour.
MaxFrames == 3

\* Fixed simulation ticks of one behaviour.
MaxTicks == 2

\* Commands the external stage submits before one tick.
MaxCommands == 2

\* seed.rs: WorldSeed::default, the seed of the world.
seed == 12345

Min(a, b) == IF a <= b THEN a ELSE b

Abs(a) == IF a < 0 THEN 0 - a ELSE a

\* usize::saturating_sub
SaturatingSub(a, b) == IF a >= b THEN a - b ELSE 0

\* HashMap::insert and HashMap::remove on a map kept as a function.
MapInsert(m, k, v) == [q \in (DOMAIN m) \cup {k} |-> IF q = k THEN v ELSE m[q]]

MapRemove(m, k) == [q \in (DOMAIN m) \ {k} |-> m[q]]

EmptyMap == [q \in {} |-> 0]

\* The elements of a sequence.
Range(s) == {s[i] : i \in DOMAIN s}

\* Vec::contains
Contains(s, e) == \E i \in DOMAIN s : s[i] = e

\* Vec::retain(|&pos| pos != p)
RetainNot(s, p) == SelectSeq(s, LAMBDA e : e # p)

---------------------------------------------------------------------------
(* chunk.rs: ChunkPos                                                      *)

ChunkPos(x, y, z) == [x |-> x, y |-> y, z |-> z]

\* ChunkPos::from_world_pos with the truncating division of the / operator.
from_world_pos_truncating(wx, wy, wz) ==
    LET trunc(a) == IF a >= 0 THEN a \div CHUNK_SIZE
                    ELSE 0 - ((0 - a) \div CHUNK_SIZE)
    IN  ChunkPos(trunc(wx), trunc(wy), trunc(wz))

\* ChunkPos::from_world_pos: Euclidean division by the chunk edge.
from_world_pos(wx, wy, wz) ==
    ChunkPos(wx \div CHUNK_SIZE, wy \div CHUNK_SIZE, wz \div CHUNK_SIZE)

\* ChunkPos::world_origin
world_origin(p) ==
    [x |-> p.x * CHUNK_SIZE, y |-> p.y * CHUNK_SIZE, z |-> p.z * CHUNK_SIZE]

\* The squared distance both sort_by closures of update_chunk_loading compute.
DistSq(a, c) ==
    (a.x - c.x) * (a.x - c.x) + (a.y - c.y) * (a.y - c.y)
        + (a.z - c.z) * (a.z - c.z)

---------------------------------------------------------------------------
(* chunk.rs: ChunkData; terrain.rs and mesh_gen.rs: what a task computes   *)

\* ChunkData::VOXEL_COUNT
VOXEL_COUNT == CHUNK_SIZE * CHUNK_SIZE * CHUNK_SIZE

Cells == 0 .. (VOXEL_COUNT - 1)

\* ChunkData::index: Y-Z-X linearisation.
index(x, y, z) == (y * CHUNK_SIZE * CHUNK_SIZE) + (z * CHUNK_SIZE) + x

\* api.rs: idx_to_xyz
idx_to_xyz(idx) ==
    [x |-> (idx % (CHUNK_SIZE * CHUNK_SIZE)) % CHUNK_SIZE,
     y |-> idx \div (CHUNK_SIZE * CHUNK_SIZE),
     z |-> (idx % (CHUNK_SIZE * CHUNK_SIZE)) \div CHUNK_SIZE]

\* api.rs: is_in_bounds
is_in_bounds(x, y, z) ==
    /\ x >= 0 /\ x < CHUNK_SIZE
    /\ y >= 0 /\ y < CHUNK_SIZE
    /\ z >= 0 /\ z < CHUNK_SIZE

\* thermal/state.rs: ThermalState::default, and the None of
\* ChunkData.thermal_state (some = FALSE).
NoThermalState == [some |-> FALSE, temp_overrides |-> EmptyMap,
                   heat_buffer |-> EmptyMap]

\* ChunkData::new: every voxel Air, dirty, no state.
ChunkDataNew ==
    [voxels |-> [i \in Cells |-> "Air"],
     is_dirty |-> TRUE,
     flags |-> [i \in Cells |-> {}],
     variant |-> [i \in Cells |-> 0],
     thermal_state |-> NoThermalState,
     active_thermal |-> {},
     active_burning |-> {},
     active_freezing |-> {},
     active_melting |-> {},
     dirty_blocks |-> << >>,
     needs_remesh |-> FALSE,
     changes |-> << >>]

\* VoxelKind::is_transparent
is_transparent(kind) ==
    kind \in {"Air", "Water", "Ice", "OakLeaves", "BirchLeaves",
              "SpruceLeaves", "Flower", "TallGrass", "DeadBush"}

\* TerrainGenerator::get_height.  The Perlin fields are abstracted to a
\* deterministic function of the seed and the column; the base height is
\* scaled with the chunk edge and the result is at least 1 as in the code.
get_height(wx, wz) ==
    LET h == (CHUNK_SIZE \div 2) + ((seed + wx + wz) % 2)
    IN  IF h < 1 THEN 1 ELSE h

\* terrain.rs: BEDROCK_LAYER
BEDROCK_LAYER == 0

\* TerrainGenerator::generate_chunk, its layered rule without caves, ores,
\* water, islands and trees: bedrock at y = 0, the surface block on top of
\* the column, stone below it, air above.
generate_chunk(chunk_pos) ==
    LET origin == world_origin(chunk_pos)
        kind(i) ==
            LET l == idx_to_xyz(i)
                world_y == origin.y + l.y
                height == get_height(origin.x + l.x, origin.z + l.z)
            IN  IF world_y = BEDROCK_LAYER THEN "Stone"
                ELSE IF world_y < height
                     THEN IF world_y = height - 1 THEN "Grass" ELSE "Stone"
                     ELSE "Air"
    IN  [i \in Cells |-> kind(i)]

\* The six face directions of build_chunk_mesh_async.
directions ==
    { [x |-> 1, y |-> 0, z |-> 0], [x |-> 0 - 1, y |-> 0, z |-> 0],
      [x |-> 0, y |-> 1, z |-> 0], [x |-> 0, y |-> 0 - 1, z |-> 0],
      [x |-> 0, y |-> 0, z |-> 1], [x |-> 0, y |-> 0, z |-> 0 - 1] }

\* build_chunk_mesh_async with NeighborEdges::default(): the cell next to a
\* face is the cell of the chunk, and Air outside the chunk.
FaceNeighbor(voxels, i, dir) ==
    LET l == idx_to_xyz(i)
    IN  IF is_in_bounds(l.x + dir.x, l.y + dir.y, l.z + dir.z)
        THEN voxels[index(l.x + dir.x, l.y + dir.y, l.z + dir.z)]
        ELSE "Air"

\* The faces build_chunk_mesh_async emits.
EmittedFaces(voxels) ==
    { f \in Cells \X directions :
        /\ voxels[f[1]] # "Air"
        /\ is_transparent(FaceNeighbor(voxels, f[1], f[2]))
        /\ ~ (voxels[f[1]] = "Water"
                /\ FaceNeighbor(voxels, f[1], f[2]) = "Water") }

\* add_face_deduplicated appends six indices per face; the mesh is kept as
\* the length of its index buffer.
build_chunk_mesh_async(voxels) ==
    [indices |-> 6 * Cardinality(EmittedFaces(voxels))]

\* generate_chunk_and_mesh_async
generate_chunk_and_mesh_async(chunk_pos) ==
    LET voxels == generate_chunk(chunk_pos)
    IN  [voxels |-> voxels, mesh |-> build_chunk_mesh_async(voxels)]

---------------------------------------------------------------------------
(* systems.rs: the streaming scheduler                                     *)

\* systems.rs: FOV_COS_THRESHOLD = 0.35, in hundredths.
FOV_COS_THRESHOLD == 35

\* is_chunk_in_frustum.  The vector from the camera to the chunk centre is
\* kept doubled (the centre is origin + CHUNK_SIZE / 2), and the comparison
\* dot(forward, to_chunk / |to_chunk|) > 0.35 is made on the squares; forward
\* is a unit axis vector.
is_chunk_in_frustum(chunk_pos, camera_transform) ==
    LET origin == world_origin(chunk_pos)
        t == camera_transform.translation
        f == camera_transform.forward
        tx == 2 * origin.x + CHUNK_SIZE - 2 * t.x
        ty == 2 * origin.y + CHUNK_SIZE - 2 * t.y
        tz == 2 * origin.z + CHUNK_SIZE - 2 * t.z
        len_sq == tx * tx + ty * ty + tz * tz
        dot == f.x * tx + f.y * ty + f.z * tz
    IN  IF len_sq < (4 * CHUNK_SIZE) * (4 * CHUNK_SIZE)
        THEN TRUE
        ELSE /\ dot > 0
             /\ 100 * 100 * dot * dot
                    > FOV_COS_THRESHOLD * FOV_COS_THRESHOLD * len_sq

\* The chunk the camera is in: update_chunk_loading and
\* spawn_batch_placeholders both compute it from the translation.
center_chunk_of(camera_transform) ==
    from_world_pos(camera_transform.translation.x,
                   camera_transform.translation.y,
                   camera_transform.translation.z)

\* The coordinates the three nested loops of update_chunk_loading visit, in
\* the order they visit them (dx outermost, then dy, then dz).
LoopCoords(center_chunk) ==
    LET w == 2 * RENDER_DISTANCE + 1
        h == 2 * VERTICAL_RENDER_DISTANCE + 1
    IN  [k \in 1 .. (w * h * w) |->
            ChunkPos(center_chunk.x + ((k - 1) \div (w * h)) - RENDER_DISTANCE,
                     center_chunk.y + (((k - 1) \div w) % h)
                         - VERTICAL_RENDER_DISTANCE,
                     center_chunk.z + ((k - 1) % w) - RENDER_DISTANCE)]

\* Vec::sort_by with the squared distance to center_chunk as the key.  The
\* sort is stable, so its result is the elements of each distance in their
\* former order, the distances ascending.
RECURSIVE SortBuckets(_, _, _)
SortBuckets(s, center_chunk, keys) ==
    IF keys = {} THEN << >>
    ELSE LET k == CHOOSE a \in keys : \A b \in keys : a <= b
         IN  SelectSeq(s, LAMBDA p : DistSq(p, center_chunk) = k)
                \o SortBuckets(s, center_chunk, keys \ {k})

sort_by_distance(s, center_chunk) ==
    SortBuckets(s, center_chunk, {DistSq(s[i], center_chunk) : i \in DOMAIN s})

\* The order in which HashMap::keys yields; it is unspecified in the
\* program and taken here as the lexicographic order of (x, y, z).
KeyLess(a, b) ==
    \/ a.x < b.x
    \/ a.x = b.x /\ a.y < b.y
    \/ a.x = b.x /\ a.y = b.y /\ a.z < b.z

RECURSIVE KeysInOrder(_)
KeysInOrder(S) ==
    IF S = {} THEN << >>
    ELSE LET m == CHOOSE a \in S : \A b \in S \ {a} : KeyLess(a, b)
         IN  << m >> \o KeysInOrder(S \ {m})

\* An unload test on the radii of the load loops.
out_of_range_load_radii(chunk_pos, center_chunk) ==
    \/ Abs(chunk_pos.x - center_chunk.x) > RENDER_DISTANCE
    \/ Abs(chunk_pos.y - center_chunk.y) > VERTICAL_RENDER_DISTANCE
    \/ Abs(chunk_pos.z - center_chunk.z) > RENDER_DISTANCE

\* The unload test of update_chunk_loading: beyond the render distance + 1.
out_of_range(chunk_pos, center_chunk) ==
    \/ Abs(chunk_pos.x - center_chunk.x) > RENDER_DISTANCE + 1
    \/ Abs(chunk_pos.y - center_chunk.y) > VERTICAL_RENDER_DISTANCE + 1
    \/ Abs(chunk_pos.z - center_chunk.z) > RENDER_DISTANCE + 1

\* update_chunk_loading collecting without its test against to_load.
chunks_to_add_requeue(center_chunk) ==
    LET pending_chunks == {tasks[i].chunk_pos : i \in DOMAIN tasks}
    IN  SelectSeq(LoopCoords(center_chunk),
                  LAMBDA chunk_pos :
                      /\ is_chunk_in_frustum(chunk_pos, camera)
                      /\ chunk_pos \notin DOMAIN loaded_chunks
                      /\ chunk_pos \notin DOMAIN chunks
                      /\ chunk_pos \notin pending_chunks)

\* The coordinates update_chunk_loading collects in chunks_to_add, before
\* it sorts them.
chunks_to_add_of(center_chunk) ==
    LET pending_chunks == {tasks[i].chunk_pos : i \in DOMAIN tasks}
    IN  SelectSeq(LoopCoords(center_chunk),
                  LAMBDA chunk_pos :
                      /\ is_chunk_in_frustum(chunk_pos, camera)
                      /\ chunk_pos \notin DOMAIN loaded_chunks
                      /\ chunk_pos \notin DOMAIN chunks
                      /\ ~ Contains(to_load, chunk_pos)
                      /\ chunk_pos \notin pending_chunks)

\* update_chunk_loading without its whole-queue sort.
resort_queue_skipped(queue, center_chunk) == queue

\* The whole-queue sort at the end of the load half.
resort_queue(queue, center_chunk) == sort_by_distance(queue, center_chunk)

\* The unload half: every key of chunks out of range is pushed unless
\* to_unload holds it already.
RECURSIVE push_unloads(_, _, _)
push_unloads(unload, keys, center_chunk) ==
    IF keys = << >> THEN unload
    ELSE push_unloads(
            IF out_of_range(Head(keys), center_chunk)
                   /\ ~ Contains(unload, Head(keys))
            THEN Append(unload, Head(keys))
            ELSE unload,
            Tail(keys), center_chunk)

\* A pass that puts an empty ChunkData in the store for every coordinate it
\* queues, to be filled in place later.
update_chunk_loading_in_place ==
    /\ pc = "update_chunk_loading"
    /\ frame < MaxFrames
    /\ LET center_chunk == center_chunk_of(camera)
           chunks_to_add ==
               sort_by_distance(chunks_to_add_of(center_chunk), center_chunk)
       IN  /\ pending_placeholders' = pending_placeholders \o chunks_to_add
           /\ to_load' = resort_queue(to_load \o chunks_to_add, center_chunk)
           /\ to_unload' = push_unloads(to_unload,
                                        KeysInOrder(DOMAIN chunks),
                                        center_chunk)
           /\ chunks' = [q \in (DOMAIN chunks) \cup Range(chunks_to_add) |->
                            IF q \in DOMAIN chunks THEN chunks[q]
                            ELSE ChunkDataNew]
    /\ frame' = frame + 1
    /\ pc' = "spawn_batch_placeholders"
    /\ UNCHANGED << camera, loaded_chunks, active_tasks, placeholders,
                    tasks, completed, timer, entities, next_entity,
                    placeholder_alive, moved >>
    /\ UNCHANGED << simVars, apiVars >>

update_chunk_loading ==
    /\ pc = "update_chunk_loading"
    /\ frame < MaxFrames
    /\ LET center_chunk == center_chunk_of(camera)
           chunks_to_add ==
               sort_by_distance(chunks_to_add_of(center_chunk), center_chunk)
       IN  /\ pending_placeholders' = pending_placeholders \o chunks_to_add
           /\ to_load' = resort_queue(to_load \o chunks_to_add, center_chunk)
           /\ to_unload' = push_unloads(to_unload,
                                        KeysInOrder(DOMAIN chunks),
                                        center_chunk)
    /\ frame' = frame + 1
    /\ pc' = "spawn_batch_placeholders"
    /\ UNCHANGED << camera, chunks, loaded_chunks, active_tasks, placeholders,
                    tasks, completed, timer, entities, next_entity,
                    placeholder_alive, moved >>
    /\ UNCHANGED << simVars, apiVars >>

\* The placeholder filter of spawn_batch_placeholders.
placeholder_wanted(chunk_pos, camera_transform) ==
    LET center_chunk == center_chunk_of(camera_transform)
        in_range ==
            /\ Abs(chunk_pos.x - center_chunk.x) <= RENDER_DISTANCE
            /\ Abs(chunk_pos.y - center_chunk.y) <= VERTICAL_RENDER_DISTANCE
            /\ Abs(chunk_pos.z - center_chunk.z) <= RENDER_DISTANCE
    IN  in_range /\ is_chunk_in_frustum(chunk_pos, camera_transform)

\* The spawn loop of spawn_batch_placeholders: the i-th coordinate gets the
\* i-th fresh entity and is recorded in the map; a later insert of the same
\* coordinate overwrites the earlier one.
spawn_placeholders(map, next, chunks_to_create) ==
    LET last(q) == CHOOSE i \in DOMAIN chunks_to_create :
                       /\ chunks_to_create[i] = q
                       /\ \A j \in DOMAIN chunks_to_create :
                              chunks_to_create[j] = q => j <= i
    IN  [q \in (DOMAIN map) \cup Range(chunks_to_create) |->
            IF q \in Range(chunks_to_create) THEN next + last(q) - 1
            ELSE map[q]]

spawn_batch_placeholders ==
    /\ pc = "spawn_batch_placeholders"
    /\ IF pending_placeholders = << >>
       THEN UNCHANGED << pending_placeholders, placeholders, entities,
                         next_entity, placeholder_alive >>
       ELSE LET chunks_to_create ==
                    SelectSeq(pending_placeholders,
                              LAMBDA chunk_pos :
                                  placeholder_wanted(chunk_pos, camera))
            IN  /\ pending_placeholders' = << >>
                /\ placeholders' = spawn_placeholders(placeholders,
                                                      next_entity,
                                                      chunks_to_create)
                /\ entities' = entities \cup
                       (next_entity ..
                            (next_entity + Len(chunks_to_create) - 1))
                /\ placeholder_alive' = placeholder_alive \cup
                       (next_entity ..
                            (next_entity + Len(chunks_to_create) - 1))
                /\ next_entity' = next_entity + Len(chunks_to_create)
    /\ pc' = "spawn_mesh_tasks"
    /\ UNCHANGED << camera, chunks, loaded_chunks, to_load, to_unload,
                    active_tasks, tasks, completed, timer, frame, moved >>
    /\ UNCHANGED << simVars, apiVars >>

\* A drain that does not subtract the tasks in flight.
drain_count_unbounded(queue, active) == Min(Len(queue), max_concurrent_tasks)

\* The number of coordinates spawn_mesh_tasks drains from the front of
\* to_load.
drain_count(queue, active) ==
    Min(Len(queue), SaturatingSub(max_concurrent_tasks, active))

\* A dispatch loop without the placeholder lookup: a coordinate without a
\* placeholder gets a task that names no placeholder entity.
RECURSIVE dispatch_unchecked(_, _)
dispatch_unchecked(acc, chunks_to_process) ==
    IF chunks_to_process = << >> THEN acc
    ELSE LET chunk_pos == Head(chunks_to_process)
         IN  dispatch_unchecked(
                [tasks |-> Append(acc.tasks,
                              [entity |-> acc.next,
                               chunk_pos |-> chunk_pos,
                               placeholder_entity |->
                                   IF chunk_pos \in DOMAIN placeholders
                                   THEN placeholders[chunk_pos] ELSE 0]),
                 entities |-> acc.entities \cup {acc.next},
                 next |-> acc.next + 1,
                 active_tasks |-> acc.active_tasks + 1],
                Tail(chunks_to_process))

\* The dispatch loop of spawn_mesh_tasks over the drained coordinates: a
\* coordinate with a placeholder gets a task entity, one without is skipped.
RECURSIVE dispatch(_, _)
dispatch(acc, chunks_to_process) ==
    IF chunks_to_process = << >> THEN acc
    ELSE LET chunk_pos == Head(chunks_to_process)
         IN  IF chunk_pos \in DOMAIN placeholders
             THEN dispatch(
                     [tasks |-> Append(acc.tasks,
                                   [entity |-> acc.next,
                                    chunk_pos |-> chunk_pos,
                                    placeholder_entity |->
                                        placeholders[chunk_pos]]),
                      entities |-> acc.entities \cup {acc.next},
                      next |-> acc.next + 1,
                      active_tasks |-> acc.active_tasks + 1],
                     Tail(chunks_to_process))
             ELSE dispatch(acc, Tail(chunks_to_process))

spawn_mesh_tasks ==
    /\ pc = "spawn_mesh_tasks"
    /\ LET count == drain_count(to_load, active_tasks)
           r == dispatch([tasks |-> tasks, entities |-> entities,
                          next |-> next_entity,
                          active_tasks |-> active_tasks],
                         SubSeq(to_load, 1, count))
       IN  /\ to_load' = SubSeq(to_load, count + 1, Len(to_load))
           /\ tasks' = r.tasks
           /\ entities' = r.entities
           /\ next_entity' = r.next
           /\ active_tasks' = r.active_tasks
    /\ pc' = "handle_completed_mesh_tasks"
    /\ UNCHANGED << camera, chunks, loaded_chunks, to_unload,
                    pending_placeholders, placeholders, completed, timer,
                    placeholder_alive, frame, moved >>
    /\ UNCHANGED << simVars, apiVars >>

\* The CompletedChunk handle_completed_mesh_tasks pushes for a finished task.
CompletedChunk(task) ==
    LET r == generate_chunk_and_mesh_async(task.chunk_pos)
    IN  [chunk_pos |-> task.chunk_pos, voxels |-> r.voxels, mesh |-> r.mesh,
         placeholder_entity |-> task.placeholder_entity]

\* handle_completed_mesh_tasks polls every task; the tasks whose poll finds
\* a result (any subset, the workers run on their own) are despawned and
\* their results buffered.
handle_completed_mesh_tasks ==
    /\ pc = "handle_completed_mesh_tasks"
    /\ \E done \in SUBSET (DOMAIN tasks) :
          LET finished == SelectSeq(tasks, LAMBDA t :
                              \E i \in done : tasks[i] = t)
          IN  /\ tasks' = SelectSeq(tasks, LAMBDA t :
                              ~ \E i \in done : tasks[i] = t)
              /\ entities' = entities \ {finished[i].entity :
                                             i \in DOMAIN finished}
              /\ active_tasks' = SaturatingSub(active_tasks, Len(finished))
              /\ completed' = completed \o
                     [i \in DOMAIN finished |-> CompletedChunk(finished[i])]
    /\ pc' = "apply_chunk_replacements"
    /\ UNCHANGED << camera, chunks, loaded_chunks, to_load, to_unload,
                    pending_placeholders, placeholders, timer, next_entity,
                    placeholder_alive, frame, moved >>
    /\ UNCHANGED << simVars, apiVars >>

\* The frame times a run draws Time::delta_secs from: a third of the batch
\* interval and the whole of it.
DeltaSecs == {interval \div 3, interval}

\* A trigger on the batch size alone.
should_replace_by_size(buffer_len, t) == buffer_len >= min_batch_size

\* The trigger of apply_chunk_replacements, on the advanced timer.
should_replace(buffer_len, t) ==
    buffer_len >= min_batch_size \/ t >= interval

\* A geometry test that every mesh passes, and one that none passes.
has_geometry_always(mesh) == TRUE

has_geometry_never(mesh) == FALSE

\* The has_geometry test of apply_chunk_replacements.
has_geometry(mesh) == mesh.indices > 0

\* Stored data that keeps the dirty mark of ChunkData::new.
chunk_data_dirty(c) == [ChunkDataNew EXCEPT !.voxels = c.voxels]

\* The data apply_chunk_replacements stores for a result.
chunk_data_of(c) == [ChunkDataNew EXCEPT !.voxels = c.voxels,
                                         !.is_dirty = FALSE]

\* The replacement loop of apply_chunk_replacements over the drained buffer.
RECURSIVE replace_all(_, _)
replace_all(acc, buffer) ==
    IF buffer = << >> THEN acc
    ELSE LET c == Head(buffer)
             stored ==
                 [acc EXCEPT
                     !.chunks = MapInsert(acc.chunks, c.chunk_pos,
                                          chunk_data_of(c)),
                     !.entities = acc.entities \ {c.placeholder_entity},
                     !.placeholders = MapRemove(acc.placeholders,
                                                c.chunk_pos)]
         IN  IF ~ has_geometry(c.mesh)
             THEN replace_all(stored, Tail(buffer))
             ELSE replace_all(
                     [stored EXCEPT
                         !.entities = stored.entities \cup {stored.next},
                         !.loaded_chunks = MapInsert(stored.loaded_chunks,
                                                     c.chunk_pos, stored.next),
                         !.next = stored.next + 1],
                     Tail(buffer))

apply_chunk_replacements ==
    /\ pc = "apply_chunk_replacements"
    /\ IF completed = << >>
       THEN UNCHANGED << chunks, loaded_chunks, placeholders, completed, timer,
                         entities, next_entity >>
       ELSE \E delta_secs \in DeltaSecs :
              IF ~ should_replace(Len(completed), timer + delta_secs)
              THEN /\ timer' = timer + delta_secs
                   /\ UNCHANGED << chunks, loaded_chunks, placeholders,
                                   completed, entities, next_entity >>
              ELSE LET r == replace_all(
                               [chunks |-> chunks,
                                loaded_chunks |-> loaded_chunks,
                                placeholders |-> placeholders,
                                entities |-> entities,
                                next |-> next_entity],
                               completed)
                   IN  /\ timer' = 0
                       /\ completed' = << >>
                       /\ chunks' = r.chunks
                       /\ loaded_chunks' = r.loaded_chunks
                       /\ placeholders' = r.placeholders
                       /\ entities' = r.entities
                       /\ next_entity' = r.next
    /\ placeholder_alive' = placeholder_alive \cap entities'
    /\ pc' = "process_chunk_unload"
    /\ UNCHANGED << camera, to_load, to_unload, active_tasks,
                    pending_placeholders, tasks, frame, moved >>
    /\ UNCHANGED << simVars, apiVars >>

\* An unload that despawns nothing.
unload_despawns_none(chunk_pos, loaded, map) == {}

\* The entities process_chunk_unload despawns for one coordinate: its render
\* entity, the tracking entity and the placeholder of every task that
\* targets it, and the placeholder the map holds for it.
unload_despawns(chunk_pos, loaded, map) ==
    (IF chunk_pos \in DOMAIN loaded THEN {loaded[chunk_pos]} ELSE {})
        \cup {tasks[i].entity : i \in {j \in DOMAIN tasks :
                                          tasks[j].chunk_pos = chunk_pos}}
        \cup {tasks[i].placeholder_entity :
                  i \in {j \in DOMAIN tasks : tasks[j].chunk_pos = chunk_pos}}
        \cup (IF chunk_pos \in DOMAIN map THEN {map[chunk_pos]} ELSE {})

\* An unload that counts one cancelled task for every coordinate, whether a
\* task targets it or not.
tasks_to_cancel_one(chunk_pos) == 1

\* An unload that counts no cancelled task.
tasks_to_cancel_none(chunk_pos) == 0

\* What the inner loop of process_chunk_unload adds to tasks_to_cancel for
\* one coordinate: one for every tracked task that targets it.
tasks_to_cancel_of(chunk_pos) ==
    Cardinality({i \in DOMAIN tasks : tasks[i].chunk_pos = chunk_pos})

\* The loop of process_chunk_unload over the drained to_unload.
RECURSIVE unload_all(_, _)
unload_all(acc, chunks_to_unload) ==
    IF chunks_to_unload = << >> THEN acc
    ELSE LET chunk_pos == Head(chunks_to_unload)
         IN  unload_all(
                [loaded_chunks |-> MapRemove(acc.loaded_chunks, chunk_pos),
                 entities |-> acc.entities
                     \ unload_despawns(chunk_pos, acc.loaded_chunks,
                                       acc.placeholders),
                 tasks_to_cancel |-> acc.tasks_to_cancel
                     + tasks_to_cancel_of(chunk_pos),
                 placeholders |-> MapRemove(acc.placeholders, chunk_pos),
                 to_load |-> RetainNot(acc.to_load, chunk_pos),
                 completed |-> SelectSeq(acc.completed,
                                   LAMBDA c : c.chunk_pos # chunk_pos),
                 pending_placeholders |->
                     RetainNot(acc.pending_placeholders, chunk_pos),
                 chunks |-> MapRemove(acc.chunks, chunk_pos)],
                Tail(chunks_to_unload))

process_chunk_unload ==
    /\ pc = "process_chunk_unload"
    /\ LET r == unload_all(
                   [loaded_chunks |-> loaded_chunks, entities |-> entities,
                    tasks_to_cancel |-> 0, placeholders |-> placeholders,
                    to_load |-> to_load, completed |-> completed,
                    pending_placeholders |-> pending_placeholders,
                    chunks |-> chunks],
                   to_unload)
       IN  /\ to_unload' = << >>
           /\ loaded_chunks' = r.loaded_chunks
           /\ entities' = r.entities
           /\ placeholders' = r.placeholders
           /\ to_load' = r.to_load
           /\ completed' = r.completed
           /\ pending_placeholders' = r.pending_placeholders
           /\ chunks' = r.chunks
           /\ tasks' = SelectSeq(tasks, LAMBDA t :
                           ~ Contains(to_unload, t.chunk_pos))
           /\ active_tasks' = SaturatingSub(active_tasks, r.tasks_to_cancel)
           /\ placeholder_alive' = placeholder_alive \cap r.entities
    /\ pc' = "cleanup_orphan_placeholders"
    /\ UNCHANGED << camera, timer, next_entity, frame, moved >>
    /\ UNCHANGED << simVars, apiVars >>

\* A cleanup that looks at the load queue alone.
should_have_placeholder_queued == Range(to_load)

\* The coordinates cleanup_orphan_placeholders lets keep a placeholder.
should_have_placeholder ==
    Range(to_load) \cup {tasks[i].chunk_pos : i \in DOMAIN tasks}
        \cup Range(pending_placeholders)

cleanup_orphan_placeholders ==
    /\ pc = "cleanup_orphan_placeholders"
    /\ LET orphans == (DOMAIN placeholders) \ should_have_placeholder
       IN  /\ placeholders' = [q \in (DOMAIN placeholders) \ orphans |->
                                  placeholders[q]]
           /\ entities' = entities \ {placeholders[q] : q \in orphans}
           /\ placeholder_alive' =
                  placeholder_alive \ {placeholders[q] : q \in orphans}
    /\ pc' = "update_chunk_loading"
    /\ moved' = "no"
    /\ UNCHANGED << camera, chunks, loaded_chunks, to_load, to_unload,
                    active_tasks, pending_placeholders, tasks, completed,
                    timer, next_entity, frame >>
    /\ UNCHANGED << simVars, apiVars >>

---------------------------------------------------------------------------
(* player.rs: the camera                                                   *)

\* A Transform at the centre of chunk (cx, cy, cz) looking along the x axis
\* in direction fx.
Pose(cx, cy, cz, fx) ==
    [translation |-> [x |-> cx * CHUNK_SIZE + (CHUNK_SIZE \div 2),
                      y |-> cy * CHUNK_SIZE + (CHUNK_SIZE \div 2),
                      z |-> cz * CHUNK_SIZE + (CHUNK_SIZE \div 2)],
     forward |-> [x |-> fx, y |-> 0, z |-> 0]]

\* The transforms a run moves the camera between: at the origin chunk looking
\* either way, just past the unload distance along x, and above the vertical
\* unload distance.
CameraPoses ==
    { Pose(0, 0, 0, 1), Pose(0, 0, 0, 0 - 1),
      Pose(RENDER_DISTANCE + 1, 0, 0, 1),
      Pose(0, VERTICAL_RENDER_DISTANCE + 2, 0, 1) }

\* player_look and player_move run once per frame, unordered with respect to
\* the chained systems: the transform changes before update_chunk_loading or
\* between it and spawn_batch_placeholders, the two systems that read it.
player_move ==
    /\ pc \in {"update_chunk_loading", "spawn_batch_placeholders"}
    /\ pc = "update_chunk_loading" => frame < MaxFrames
    /\ moved = "no"
    /\ \E pose \in CameraPoses \ {camera} : camera' = pose
    /\ moved' = pc
    /\ UNCHANGED << chunks, loaded_chunks, to_load, to_unload, active_tasks,
                    pending_placeholders, placeholders, tasks, completed,
                    timer, entities, next_entity, placeholder_alive, pc,
                    frame >>
    /\ UNCHANGED << simVars, apiVars >>

---------------------------------------------------------------------------
(* The streaming scheduler                                                 *)

\* The state after VoxelPlugin::build and setup_player: the resources at
\* their defaults, the camera spawned.
Init ==
    /\ camera = Pose(0, 0, 0, 1)
    /\ chunks = EmptyMap
    /\ loaded_chunks = EmptyMap
    /\ to_load = << >>
    /\ to_unload = << >>
    /\ active_tasks = 0
    /\ pending_placeholders = << >>
    /\ placeholders = EmptyMap
    /\ tasks = << >>
    /\ completed = << >>
    /\ timer = 0
    /\ entities = {}
    /\ next_entity = 1
    /\ placeholder_alive = {}
    /\ pc = "update_chunk_loading"
    /\ frame = 0
    /\ moved = "no"
    /\ commands = << >>
    /\ drained = << >>
    /\ sim_pc = "idle"
    /\ tick = 0
    /\ call = [op |-> "none"]
    /\ ret = "none"
    /\ calls = 0

Next ==
    \/ player_move
    \/ update_chunk_loading
    \/ spawn_batch_placeholders
    \/ spawn_mesh_tasks
    \/ handle_completed_mesh_tasks
    \/ apply_chunk_replacements
    \/ process_chunk_unload
    \/ cleanup_orphan_placeholders

Spec == Init /\ [][Next]_vars

---------------------------------------------------------------------------
(* voxel_kind.rs and domains/thermal/api.rs: the temperature field         *)
(*                                                                         *)
(* f32 quantities are kept as integers: temperatures in thousandths of a   *)
(* degree, heat in thousandths of a unit, conductivities and exchange      *)
(* coefficients in thousandths; a quotient is rounded toward zero.         *)

\* f32 division at the resolution above.
Quot(a, b) == IF a >= 0 THEN a \div b ELSE 0 - ((0 - a) \div b)

\* The f32 product k * a * dt for a coefficient k >= 0 in thousandths and a
\* step of 1 / d: the quotient of k * a by d, computed from the quotient
\* and the remainder of a by d so that no intermediate product leaves the
\* range of the integers the development works in.
ScaledQuot(k, a, d) ==
    LET m == IF a >= 0 THEN a ELSE 0 - a
        v == k * (m \div d) + (k * (m % d)) \div d
    IN  IF a >= 0 THEN v ELSE 0 - v

RECURSIVE SeqSum(_)
SeqSum(s) == IF s = << >> THEN 0 ELSE Head(s) + SeqSum(Tail(s))

\* The elements of a set of indices in ascending order: the order in which
\* the model visits a HashSet or the keys of a HashMap of indices.
RECURSIVE AscSeq(_)
AscSeq(S) ==
    IF S = {} THEN << >>
    ELSE LET m == CHOOSE a \in S : \A b \in S : a <= b
         IN  << m >> \o AscSeq(S \ {m})

\* VoxelKind::def().props: the thermal and combustion properties.
props(kind) ==
    CASE kind = "Air" ->
            [temperature |-> 20000, heat_capacity |-> 1,
             thermal_conductivity |-> 26, env_exchange_coef |-> 0,
             is_flammable |-> FALSE, heat_release |-> 0]
      [] kind = "Grass" ->
            [temperature |-> 18000, heat_capacity |-> 800,
             thermal_conductivity |-> 250, env_exchange_coef |-> 100,
             is_flammable |-> TRUE, heat_release |-> 50]
      [] kind = "Stone" ->
            [temperature |-> 12000, heat_capacity |-> 2000,
             thermal_conductivity |-> 2500, env_exchange_coef |-> 20,
             is_flammable |-> FALSE, heat_release |-> 0]
      [] kind = "OakLog" ->
            [temperature |-> 20000, heat_capacity |-> 1700,
             thermal_conductivity |-> 120, env_exchange_coef |-> 50,
             is_flammable |-> TRUE, heat_release |-> 200]
      [] OTHER ->
            [temperature |-> 20000, heat_capacity |-> 1000,
             thermal_conductivity |-> 500, env_exchange_coef |-> 0,
             is_flammable |-> FALSE, heat_release |-> 0]

TEMP_HOT_THRESHOLD == 100000

TEMP_COLD_THRESHOLD == 0

TEMP_EPSILON == 100

GRADIENT_THRESHOLD == 5000

\* thermal/systems.rs: ENV_TEMPERATURE
ENV_TEMPERATURE == 20000

\* The reciprocal of Time::delta_secs in FixedUpdate: 64 ticks a second.
TicksPerSecond == 64

\* A BlockChange of the change log.
SetVoxelChange(idx, old, new) ==
    [type |-> "SetVoxel", idx |-> idx, old |-> old, new |-> new]

SetFlagChange(idx, flag, set) ==
    [type |-> "SetFlag", idx |-> idx, flag |-> flag, set |-> set]

SetVariantChange(idx, old, new) ==
    [type |-> "SetVariant", idx |-> idx, old |-> old, new |-> new]

SetTempChange(idx, temp) == [type |-> "SetTemp", idx |-> idx, temp |-> temp]

SetMoistureChange(idx, moisture) ==
    [type |-> "SetMoisture", idx |-> idx, moisture |-> moisture]

\* ThermalApi::get_temp
get_temp(chunk, idx) ==
    IF chunk.thermal_state.some
          /\ idx \in DOMAIN chunk.thermal_state.temp_overrides
    THEN chunk.thermal_state.temp_overrides[idx]
    ELSE props(chunk.voxels[idx]).temperature

\* One threshold of ThermalApi::update_temp_flags.
update_flag(chunk, idx, flag, on) ==
    IF on
    THEN IF flag \notin chunk.flags[idx]
         THEN [chunk EXCEPT !.flags[idx] = @ \cup {flag},
                            !.changes = Append(@, SetFlagChange(idx, flag,
                                                                TRUE))]
         ELSE chunk
    ELSE IF flag \in chunk.flags[idx]
         THEN [chunk EXCEPT !.flags[idx] = @ \ {flag},
                            !.changes = Append(@, SetFlagChange(idx, flag,
                                                                FALSE))]
         ELSE chunk

\* ThermalApi::update_temp_flags
update_temp_flags(chunk, idx, temp) ==
    update_flag(update_flag(chunk, idx, "HOT", temp > TEMP_HOT_THRESHOLD),
                idx, "COLD", temp < TEMP_COLD_THRESHOLD)

\* A set_temp that stores every temperature as an override.
set_temp_always_stores(chunk, idx, temp) ==
    LET stored ==
            [chunk EXCEPT
                !.thermal_state =
                    [some |-> TRUE,
                     temp_overrides |-> MapInsert(@.temp_overrides, idx, temp),
                     heat_buffer |-> @.heat_buffer],
                !.active_thermal = @ \cup {idx}]
        flagged == update_temp_flags(stored, idx, temp)
    IN  [flagged EXCEPT !.changes = Append(@, SetTempChange(idx, temp)),
                        !.dirty_blocks = Append(@, idx)]

\* A set_temp that leaves the chunk as it is.
set_temp_unlogged(chunk, idx, temp) == chunk

\* ThermalApi::set_temp
set_temp(chunk, idx, temp) ==
    LET default_temp == props(chunk.voxels[idx]).temperature
        near == Abs(temp - default_temp) < TEMP_EPSILON
        stored ==
            [chunk EXCEPT
                !.thermal_state =
                    [some |-> TRUE,
                     temp_overrides |->
                         IF near THEN MapRemove(@.temp_overrides, idx)
                         ELSE MapInsert(@.temp_overrides, idx, temp),
                     heat_buffer |-> @.heat_buffer],
                !.active_thermal = IF near THEN @ ELSE @ \cup {idx}]
        flagged == update_temp_flags(stored, idx, temp)
    IN  [flagged EXCEPT !.changes = Append(@, SetTempChange(idx, temp)),
                        !.dirty_blocks = Append(@, idx)]

\* ThermalApi::add_heat
add_heat(chunk, idx, heat) ==
    LET current_temp == get_temp(chunk, idx)
        heat_capacity == props(chunk.voxels[idx]).heat_capacity
    IN  IF heat_capacity <= 0 THEN chunk
        ELSE set_temp(chunk, idx, current_temp + Quot(heat, heat_capacity))

\* api.rs: get_neighbor_indices, unchecked.  usize wraps below zero to a
\* value past every cell; the model keeps it negative, which names no cell
\* either.
get_neighbor_indices(idx) ==
    << idx - 1, idx + 1, idx - CHUNK_SIZE, idx + CHUNK_SIZE,
       idx - (CHUNK_SIZE * CHUNK_SIZE), idx + (CHUNK_SIZE * CHUNK_SIZE) >>

\* api.rs: get_valid_neighbor_indices
get_valid_neighbor_indices(idx) ==
    LET l == idx_to_xyz(idx)
    IN  (IF l.x > 0 THEN << index(l.x - 1, l.y, l.z) >> ELSE << >>)
        \o (IF l.x < CHUNK_SIZE - 1 THEN << index(l.x + 1, l.y, l.z) >>
            ELSE << >>)
        \o (IF l.z > 0 THEN << index(l.x, l.y, l.z - 1) >> ELSE << >>)
        \o (IF l.z < CHUNK_SIZE - 1 THEN << index(l.x, l.y, l.z + 1) >>
            ELSE << >>)
        \o (IF l.y > 0 THEN << index(l.x, l.y - 1, l.z) >> ELSE << >>)
        \o (IF l.y < CHUNK_SIZE - 1 THEN << index(l.x, l.y + 1, l.z) >>
            ELSE << >>)

\* ThermalApi::should_stay_active
should_stay_active(chunk, idx) ==
    LET temp == get_temp(chunk, idx)
        default_temp == props(chunk.voxels[idx]).temperature
        nb == get_neighbor_indices(idx)
    IN  \/ Abs(temp - default_temp) > 1000
        \/ "BURNING" \in chunk.flags[idx]
        \/ \E i \in DOMAIN nb :
              /\ nb[i] >= 0
              /\ nb[i] < VOXEL_COUNT
              /\ \/ "BURNING" \in chunk.flags[nb[i]]
                 \/ Abs(get_temp(chunk, nb[i]) - temp) > GRADIENT_THRESHOLD

---------------------------------------------------------------------------
(* domains/thermal/systems.rs: the FieldUpdate systems                     *)

\* The heat delta thermal_diffusion_system computes for an active cell from
\* the temperatures of the first pass.
heat_delta_of(chunk, thermal, idx) ==
    LET temp_of(i) == IF i \in DOMAIN thermal.temp_overrides
                      THEN thermal.temp_overrides[i]
                      ELSE props(chunk.voxels[i]).temperature
        current_temp == temp_of(idx)
        p == props(chunk.voxels[idx])
        nb == get_valid_neighbor_indices(idx)
        heat_flow(n) ==
            LET k_avg == (p.thermal_conductivity
                            + props(chunk.voxels[n]).thermal_conductivity)
                            \div 2
            IN  ScaledQuot(k_avg, temp_of(n) - current_temp,
                           1000 * TicksPerSecond)
        conducted == SeqSum([i \in DOMAIN nb |-> heat_flow(nb[i])])
    IN  IF p.env_exchange_coef > 0
        THEN conducted + ScaledQuot(p.env_exchange_coef,
                                    ENV_TEMPERATURE - current_temp,
                                    1000 * TicksPerSecond)
        ELSE conducted

\* The second pass of thermal_diffusion_system.
RECURSIVE apply_heat_changes(_, _, _)
apply_heat_changes(chunk, heat_buffer, keys) ==
    IF keys = << >> THEN chunk
    ELSE apply_heat_changes(
            add_heat(chunk, Head(keys), heat_buffer[Head(keys)]),
            heat_buffer, Tail(keys))

\* The orders in which the second pass may meet the entries of heat_buffer:
\* a HashMap iterates in no specified order.  The ascending and the
\* descending order between them put every pair of cells both ways round.
heat_change_order(keys, descending) ==
    LET asc == AscSeq(keys)
    IN  IF descending THEN [i \in 1 .. Len(asc) |-> asc[(Len(asc) + 1) - i]]
        ELSE asc

\* A diffusion without the buffer: each active cell takes its heat as soon
\* as it is computed, so the cells visited later see the new temperature.
RECURSIVE diffuse_in_place(_, _)
diffuse_in_place(chunk, keys) ==
    IF keys = << >> THEN chunk
    ELSE LET delta == heat_delta_of(chunk, chunk.thermal_state, Head(keys))
         IN  diffuse_in_place(
                IF Abs(delta) > 1 THEN add_heat(chunk, Head(keys), delta)
                ELSE chunk,
                Tail(keys))

diffuse_chunk_in_place(chunk, descending) ==
    IF chunk.active_thermal = {} THEN chunk
    ELSE LET started == [chunk EXCEPT !.thermal_state.some = TRUE]
             heated == diffuse_in_place(
                          started,
                          heat_change_order(chunk.active_thermal, descending))
             to_remove == {a \in chunk.active_thermal :
                              ~ should_stay_active(heated, a)}
         IN  [heated EXCEPT !.active_thermal = @ \ to_remove]

\* The body of the chunk loop of thermal_diffusion_system.
diffuse_chunk(chunk, descending) ==
    IF chunk.active_thermal = {} THEN chunk
    ELSE LET active_indices == chunk.active_thermal
             thermal == [chunk.thermal_state EXCEPT !.some = TRUE]
             heat_buffer ==
                 [i \in (DOMAIN thermal.heat_buffer)
                        \cup {a \in active_indices :
                                Abs(heat_delta_of(chunk, thermal, a)) > 1}
                    |-> IF i \in active_indices
                           /\ Abs(heat_delta_of(chunk, thermal, i)) > 1
                        THEN heat_delta_of(chunk, thermal, i)
                        ELSE thermal.heat_buffer[i]]
             buffered == [chunk EXCEPT !.thermal_state =
                             [thermal EXCEPT !.heat_buffer = heat_buffer]]
             heated == apply_heat_changes(
                          buffered, heat_buffer,
                          heat_change_order(DOMAIN heat_buffer, descending))
             cleared == [heated EXCEPT
                            !.thermal_state.heat_buffer = EmptyMap]
             to_remove == {a \in active_indices :
                              ~ should_stay_active(cleared, a)}
         IN  [cleared EXCEPT !.active_thermal = @ \ to_remove]

thermal_diffusion_system ==
    /\ sim_pc = "thermal_diffusion_system"
    /\ tick < MaxTicks
    /\ \E descending \in BOOLEAN :
          chunks' = [q \in DOMAIN chunks |->
                        diffuse_chunk(chunks[q], descending)]
    /\ sim_pc' = "heat_source_system"
    /\ UNCHANGED << commands, drained, tick >>
    /\ UNCHANGED << streamVars, apiVars >>

\* The heat heat_source_system hands out for one burning cell.
RECURSIVE heat_neighbors(_, _, _)
heat_neighbors(chunk, neighbors, heat_per_neighbor) ==
    IF neighbors = << >> THEN chunk
    ELSE heat_neighbors(add_heat(chunk, Head(neighbors), heat_per_neighbor),
                        Tail(neighbors), heat_per_neighbor)

\* The loop of heat_source_system over the burning cells of a chunk.
RECURSIVE heat_sources(_, _)
heat_sources(chunk, burning_indices) ==
    IF burning_indices = << >> THEN chunk
    ELSE LET idx == Head(burning_indices)
             p == props(chunk.voxels[idx])
             heat == Quot(p.heat_release * 1000, TicksPerSecond)
             neighbors == get_valid_neighbor_indices(idx)
         IN  IF p.is_flammable /\ p.heat_release > 0
             THEN heat_sources(
                     heat_neighbors(add_heat(chunk, idx, Quot(heat, 2)),
                                    neighbors,
                                    Quot(Quot(heat, 2), Len(neighbors))),
                     Tail(burning_indices))
             ELSE heat_sources(chunk, Tail(burning_indices))

\* A heat_source_system after which Post runs, Commit left out.
heat_source_system_before_post ==
    /\ sim_pc = "heat_source_system"
    /\ chunks' = [q \in DOMAIN chunks |->
                     heat_sources(chunks[q],
                                  AscSeq(chunks[q].active_burning))]
    /\ sim_pc' = "cleanup_changes_system"
    /\ UNCHANGED << commands, drained, tick >>
    /\ UNCHANGED << streamVars, apiVars >>

heat_source_system ==
    /\ sim_pc = "heat_source_system"
    /\ chunks' = [q \in DOMAIN chunks |->
                     heat_sources(chunks[q],
                                  AscSeq(chunks[q].active_burning))]
    /\ sim_pc' = "commit_system"
    /\ UNCHANGED << commands, drained, tick >>
    /\ UNCHANGED << streamVars, apiVars >>

---------------------------------------------------------------------------
(* domains/command.rs: the command queue and Commit                        *)

\* The constructors of DomainCommand.
SetBlock(idx, new_voxel) ==
    [type |-> "SetBlock", idx |-> idx, new_voxel |-> new_voxel]

AddFlag(idx, flag) == [type |-> "AddFlag", idx |-> idx, flag |-> flag]

RemoveFlag(idx, flag) == [type |-> "RemoveFlag", idx |-> idx, flag |-> flag]

SetVariant(idx, variant) ==
    [type |-> "SetVariant", idx |-> idx, variant |-> variant]

IncrementVariant(idx) == [type |-> "IncrementVariant", idx |-> idx]

DecrementVariant(idx) == [type |-> "DecrementVariant", idx |-> idx]

SetTemp(idx, temp) == [type |-> "SetTemp", idx |-> idx, temp |-> temp]

AddHeat(idx, heat) == [type |-> "AddHeat", idx |-> idx, heat |-> heat]

SetMoisture(idx, moisture) ==
    [type |-> "SetMoisture", idx |-> idx, moisture |-> moisture]

AddMoisture(idx, delta) ==
    [type |-> "AddMoisture", idx |-> idx, delta |-> delta]

Ignite(idx, power) == [type |-> "Ignite", idx |-> idx, power |-> power]

Extinguish(idx) == [type |-> "Extinguish", idx |-> idx]

\* Vec::iter().find(SetBlock) on a group of resolve_conflicts.
first_set_block(cmds) ==
    cmds[CHOOSE i \in DOMAIN cmds :
            /\ cmds[i].type = "SetBlock"
            /\ \A j \in DOMAIN cmds : cmds[j].type = "SetBlock" => i <= j]

\* A resolution that lets every command through in queue order.
resolve_nothing(cmds, group_order) == cmds

\* A resolve_conflicts that hands the commands on last first.
resolve_in_reverse(cmds, group_order) ==
    [i \in 1 .. Len(cmds) |-> cmds[(Len(cmds) + 1) - i]]

\* resolve_conflicts, with the groups of per_idx visited in group_order (the
\* iteration order of the HashMap, which the program leaves open).
RECURSIVE resolve_conflicts(_, _)
resolve_conflicts(cmds, group_order) ==
    IF group_order = << >> THEN << >>
    ELSE LET group == SelectSeq(cmds, LAMBDA c : c.idx = Head(group_order))
         IN  (IF \E i \in DOMAIN group : group[i].type = "SetBlock"
              THEN << first_set_block(group) >>
              ELSE group)
                 \o resolve_conflicts(cmds, Tail(group_order))

\* The orders in which a HashMap may yield the keys S.
KeyOrders(S) ==
    { o \in [1 .. Cardinality(S) -> S] :
        \A i, j \in 1 .. Cardinality(S) : i # j => o[i] # o[j] }

\* execute_command
execute_command(chunk, cmd) ==
    IF cmd.idx >= VOXEL_COUNT THEN chunk
    ELSE LET idx == cmd.idx
         IN  CASE cmd.type = "SetBlock" ->
                    [chunk EXCEPT
                        !.voxels[idx] = cmd.new_voxel,
                        !.changes = Append(@, SetVoxelChange(idx,
                                        chunk.voxels[idx], cmd.new_voxel)),
                        !.dirty_blocks = Append(@, idx),
                        !.needs_remesh = TRUE,
                        !.is_dirty = TRUE]
               [] cmd.type = "AddFlag" ->
                    [chunk EXCEPT
                        !.flags[idx] = @ \cup {cmd.flag},
                        !.changes = Append(@, SetFlagChange(idx, cmd.flag,
                                                            TRUE)),
                        !.dirty_blocks = Append(@, idx)]
               [] cmd.type = "RemoveFlag" ->
                    [chunk EXCEPT
                        !.flags[idx] = @ \ {cmd.flag},
                        !.changes = Append(@, SetFlagChange(idx, cmd.flag,
                                                            FALSE)),
                        !.dirty_blocks = Append(@, idx)]
               [] cmd.type = "SetVariant" ->
                    [chunk EXCEPT
                        !.variant[idx] = cmd.variant,
                        !.changes = Append(@, SetVariantChange(idx,
                                        chunk.variant[idx], cmd.variant)),
                        !.dirty_blocks = Append(@, idx)]
               [] cmd.type = "IncrementVariant" ->
                    [chunk EXCEPT
                        !.variant[idx] = Min(@ + 1, 255),
                        !.changes = Append(@, SetVariantChange(idx,
                                        chunk.variant[idx],
                                        Min(chunk.variant[idx] + 1, 255))),
                        !.dirty_blocks = Append(@, idx)]
               [] cmd.type = "DecrementVariant" ->
                    [chunk EXCEPT
                        !.variant[idx] = SaturatingSub(@, 1),
                        !.changes = Append(@, SetVariantChange(idx,
                                        chunk.variant[idx],
                                        SaturatingSub(chunk.variant[idx], 1))),
                        !.dirty_blocks = Append(@, idx)]
               [] cmd.type = "SetTemp" -> set_temp(chunk, idx, cmd.temp)
               [] cmd.type = "AddHeat" -> add_heat(chunk, idx, cmd.heat)
               [] cmd.type = "SetMoisture" ->
                    [chunk EXCEPT
                        !.changes = Append(@, SetMoistureChange(idx,
                                                            cmd.moisture))]
               [] cmd.type = "AddMoisture" -> chunk
               [] cmd.type = "Ignite" ->
                    [chunk EXCEPT
                        !.flags[idx] = @ \cup {"BURNING"},
                        !.active_burning = @ \cup {idx},
                        !.changes = Append(@, SetFlagChange(idx, "BURNING",
                                                            TRUE)),
                        !.dirty_blocks = Append(@, idx)]
               [] cmd.type = "Extinguish" ->
                    [chunk EXCEPT
                        !.flags[idx] = @ \ {"BURNING"},
                        !.active_burning = @ \ {idx},
                        !.changes = Append(@, SetFlagChange(idx, "BURNING",
                                                            FALSE)),
                        !.dirty_blocks = Append(@, idx)]

\* The inner loop of commit_system: the resolved commands on one chunk.
RECURSIVE execute_all(_, _)
execute_all(chunk, resolved) ==
    IF resolved = << >> THEN chunk
    ELSE execute_all(execute_command(chunk, Head(resolved)), Tail(resolved))

\* A Commit that reads the queue and leaves the commands in it.
commit_system_keeps_queue ==
    /\ sim_pc = "commit_system"
    /\ drained' = commands
    /\ IF commands = << >>
       THEN UNCHANGED chunks
       ELSE \E group_order \in KeyOrders({commands[i].idx :
                                             i \in DOMAIN commands}) :
              LET resolved == resolve_conflicts(commands, group_order)
              IN  chunks' = [q \in DOMAIN chunks |->
                                execute_all(chunks[q], resolved)]
    /\ sim_pc' = "cleanup_changes_system"
    /\ UNCHANGED << commands, tick >>
    /\ UNCHANGED << streamVars, apiVars >>

commit_system ==
    /\ sim_pc = "commit_system"
    /\ drained' = commands
    /\ IF commands = << >>
       THEN UNCHANGED << chunks, commands >>
       ELSE \E group_order \in KeyOrders({commands[i].idx :
                                             i \in DOMAIN commands}) :
              LET resolved == resolve_conflicts(commands, group_order)
              IN  /\ commands' = << >>
                  /\ chunks' = [q \in DOMAIN chunks |->
                                   execute_all(chunks[q], resolved)]
    /\ sim_pc' = "cleanup_changes_system"
    /\ UNCHANGED tick
    /\ UNCHANGED << streamVars, apiVars >>

\* A clear_changes that clears nothing.
clear_changes_none(chunk) == chunk

\* ChunkData::clear_changes
clear_changes(chunk) ==
    [chunk EXCEPT !.dirty_blocks = << >>, !.changes = << >>,
                  !.needs_remesh = FALSE]

\* domains/mod.rs: cleanup_changes_system, the Post stage; the tick ends.
cleanup_changes_system ==
    /\ sim_pc = "cleanup_changes_system"
    /\ chunks' = [q \in DOMAIN chunks |-> clear_changes(chunks[q])]
    /\ sim_pc' = "thermal_diffusion_system"
    /\ tick' = tick + 1
    /\ drained' = << >>
    /\ UNCHANGED commands
    /\ UNCHANGED << streamVars, apiVars >>

\* The cells the submitted commands address: a bedrock cell and a cell of
\* the layer above the middle of the chunk.
CommandCells == {0, VOXEL_COUNT \div 2}

\* The commands the external stage submits.
CommandInputs ==
    UNION { { SetBlock(i, "Air"), SetBlock(i, "OakLog"),
              AddFlag(i, "BURNING"), RemoveFlag(i, "BURNING"),
              SetVariant(i, 7), IncrementVariant(i), DecrementVariant(i),
              SetTemp(i, 500000), AddHeat(i, 8000000),
              SetMoisture(i, 500), AddMoisture(i, 100),
              Ignite(i, 1000), Extinguish(i) } : i \in CommandCells }

\* CommandQueue::push in the ExternalActions stage: the chunk position is
\* dropped, the command is appended.
push ==
    /\ sim_pc = "thermal_diffusion_system"
    /\ tick < MaxTicks
    /\ Len(commands) < MaxCommands
    /\ \E chunk_pos \in DOMAIN chunks, command \in CommandInputs :
          commands' = Append(commands, command)
    /\ UNCHANGED << chunks, drained, sim_pc, tick >>
    /\ UNCHANGED << streamVars, apiVars >>

---------------------------------------------------------------------------
(* The fixed simulation tick                                               *)

\* The chunks resident when the simulation is observed.
ResidentAtStart == {ChunkPos(0, 0, 0), ChunkPos(1, 0, 0)}

\* The streaming scheduler at rest with the chunks of ResidentAtStart
\* applied by a batch (placeholders 1 and 2, tasks 3 and 4, render entities
\* 5 and 6), the command queue spawned empty, the first tick about to run.
SimInit ==
    /\ camera = Pose(0, 0, 0, 1)
    /\ chunks = [q \in ResidentAtStart |->
                    chunk_data_of([voxels |-> generate_chunk(q)])]
    /\ loaded_chunks = [q \in ResidentAtStart |-> 5 + q.x]
    /\ to_load = << >>
    /\ to_unload = << >>
    /\ active_tasks = 0
    /\ pending_placeholders = << >>
    /\ placeholders = EmptyMap
    /\ tasks = << >>
    /\ completed = << >>
    /\ timer = 0
    /\ entities = {5, 6}
    /\ next_entity = 7
    /\ placeholder_alive = {}
    /\ pc = "update_chunk_loading"
    /\ frame = MaxFrames
    /\ moved = "no"
    /\ commands = << >>
    /\ drained = << >>
    /\ sim_pc = "thermal_diffusion_system"
    /\ tick = 0
    /\ call = [op |-> "none"]
    /\ ret = "none"
    /\ calls = 0

SimNext ==
    \/ push
    \/ thermal_diffusion_system
    \/ heat_source_system
    \/ commit_system
    \/ cleanup_changes_system

SimSpec == SimInit /\ [][SimNext]_vars

---------------------------------------------------------------------------
(* The fixed simulation tick under thermal commands                        *)

\* The cells the thermal commands name: the first cell, the middle cell
\* and the cell after it, which lie in the stone, on the surface and in
\* the air of the chunks of ResidentAtStart.
HeatCells == {0, VOXEL_COUNT \div 2, (VOXEL_COUNT \div 2) + 1}

\* The thermal commands the external stage submits: a temperature at the
\* default of the surface, one half a degree above it and a hot one, and
\* the ignition of the surface cell.  The hot temperature is one at which
\* the heat the surface cell takes from the hot air beside it in one step
\* comes to just one thousandth of a degree, the resolution of the
\* temperatures here, so that the step shows a change of the air's
\* temperature.  Two more commands level the stone cell and the surface
\* cell above it: the stone half a degree above its default, the surface
\* within GRADIENT_THRESHOLD of it.
HeatInputs ==
    UNION { { SetTemp(i, 18000), SetTemp(i, 18500), SetTemp(i, 452000) } :
              i \in HeatCells }
        \cup { Ignite(VOXEL_COUNT \div 2, 1000) }
        \cup { SetTemp(0, 12500), SetTemp(VOXEL_COUNT \div 2, 16000) }

\* CommandQueue::push of a thermal command in the ExternalActions stage.
push_heat ==
    /\ sim_pc = "thermal_diffusion_system"
    /\ tick < MaxTicks
    /\ Len(commands) < MaxCommands
    /\ \E chunk_pos \in DOMAIN chunks, command \in HeatInputs :
          commands' = Append(commands, command)
    /\ UNCHANGED << chunks, drained, sim_pc, tick >>
    /\ UNCHANGED << streamVars, apiVars >>

HeatNext ==
    \/ push_heat
    \/ thermal_diffusion_system
    \/ heat_source_system
    \/ commit_system
    \/ cleanup_changes_system

\* The simulation of SimSpec fed with thermal commands.
HeatSpec == SimInit /\ [][HeatNext]_vars

---------------------------------------------------------------------------
(* chunk.rs: direct calls of ChunkData and VoxelWorld                      *)

\* i32::rem_euclid for a positive divisor.
rem_euclid(a, b) == a % b

\* ChunkData::set with the dirty mark ahead of the bounds check.
set_marks_dirty_first(chunk, x, y, z, kind) ==
    IF x < 0 \/ x >= CHUNK_SIZE \/ y < 0 \/ y >= CHUNK_SIZE
         \/ z < 0 \/ z >= CHUNK_SIZE
    THEN [chunk EXCEPT !.is_dirty = TRUE]
    ELSE [chunk EXCEPT !.voxels[index(x, y, z)] = kind, !.is_dirty = TRUE]

\* ChunkData::get
get(chunk, x, y, z) ==
    IF x < 0 \/ x >= CHUNK_SIZE \/ y < 0 \/ y >= CHUNK_SIZE
         \/ z < 0 \/ z >= CHUNK_SIZE
    THEN "Air"
    ELSE chunk.voxels[index(x, y, z)]

\* ChunkData::set
set(chunk, x, y, z, kind) ==
    IF x < 0 \/ x >= CHUNK_SIZE \/ y < 0 \/ y >= CHUNK_SIZE
         \/ z < 0 \/ z >= CHUNK_SIZE
    THEN chunk
    ELSE [chunk EXCEPT !.voxels[index(x, y, z)] = kind, !.is_dirty = TRUE]

\* The locals of VoxelWorld::get_voxel and VoxelWorld::set_voxel.
locate(world_pos) ==
    [chunk_pos |-> from_world_pos(world_pos.x, world_pos.y, world_pos.z),
     local_x |-> rem_euclid(world_pos.x, CHUNK_SIZE),
     local_y |-> rem_euclid(world_pos.y, CHUNK_SIZE),
     local_z |-> rem_euclid(world_pos.z, CHUNK_SIZE)]

\* VoxelWorld::get_voxel
get_voxel(world, world_pos) ==
    LET l == locate(world_pos)
    IN  IF l.chunk_pos \in DOMAIN world
        THEN get(world[l.chunk_pos], l.local_x, l.local_y, l.local_z)
        ELSE "Air"

\* VoxelWorld::set_voxel
set_voxel(world, world_pos, kind) ==
    LET l == locate(world_pos)
    IN  IF l.chunk_pos \in DOMAIN world
        THEN [world EXCEPT ![l.chunk_pos] =
                  set(world[l.chunk_pos], l.local_x, l.local_y, l.local_z,
                      kind)]
        ELSE world

\* Direct calls of one behaviour.
MaxCalls == 2

\* The coordinates handed to ChunkData::get and ChunkData::set: the two
\* ends of the chunk extent and the first coordinate beyond each.
LocalCoords == {0 - 1, 0, CHUNK_SIZE - 1, CHUNK_SIZE}

\* The world positions handed to get_voxel and set_voxel: cells of the
\* resident chunks and cells of chunks that are not resident, on both
\* sides of zero.
WorldPositions ==
    { [x |-> wx, y |-> wy, z |-> wz] :
        wx \in {0 - CHUNK_SIZE - 1, 0 - 1, 0, 2 * CHUNK_SIZE - 1,
                2 * CHUNK_SIZE},
        wy \in {0 - 1, 0, CHUNK_SIZE - 1, CHUNK_SIZE},
        wz \in {0 - 1, 0} }

\* The kinds handed to set and set_voxel.
ApiKinds == {"Air", "Stone"}

\* A caller reads a cell of a resident chunk.
call_get ==
    /\ pc = "idle" /\ sim_pc = "idle"
    /\ calls < MaxCalls
    /\ \E chunk_pos \in DOMAIN chunks, x \in LocalCoords, y \in LocalCoords,
          z \in LocalCoords :
          /\ call' = [op |-> "get", chunk_pos |-> chunk_pos,
                      x |-> x, y |-> y, z |-> z]
          /\ ret' = get(chunks[chunk_pos], x, y, z)
    /\ calls' = calls + 1
    /\ UNCHANGED << chunks, streamVars, simVars >>

\* A caller writes a cell of a resident chunk.
call_set ==
    /\ pc = "idle" /\ sim_pc = "idle"
    /\ calls < MaxCalls
    /\ \E chunk_pos \in DOMAIN chunks, x \in LocalCoords, y \in LocalCoords,
          z \in LocalCoords, kind \in ApiKinds :
          /\ call' = [op |-> "set", chunk_pos |-> chunk_pos,
                      x |-> x, y |-> y, z |-> z, kind |-> kind]
          /\ chunks' = [chunks EXCEPT ![chunk_pos] =
                            set(chunks[chunk_pos], x, y, z, kind)]
    /\ ret' = "unit"
    /\ calls' = calls + 1
    /\ UNCHANGED << streamVars, simVars >>

\* A caller reads a world position.
call_get_voxel ==
    /\ pc = "idle" /\ sim_pc = "idle"
    /\ calls < MaxCalls
    /\ \E world_pos \in WorldPositions :
          /\ call' = [op |-> "get_voxel", world_pos |-> world_pos,
                      locals |-> locate(world_pos)]
          /\ ret' = get_voxel(chunks, world_pos)
    /\ calls' = calls + 1
    /\ UNCHANGED << chunks, streamVars, simVars >>

\* A caller writes a world position.
call_set_voxel ==
    /\ pc = "idle" /\ sim_pc = "idle"
    /\ calls < MaxCalls
    /\ \E world_pos \in WorldPositions, kind \in ApiKinds :
          /\ call' = [op |-> "set_voxel", world_pos |-> world_pos,
                      locals |-> locate(world_pos), kind |-> kind]
          /\ chunks' = set_voxel(chunks, world_pos, kind)
    /\ ret' = "unit"
    /\ calls' = calls + 1
    /\ UNCHANGED << streamVars, simVars >>

\* The world of SimInit with both schedules at rest: the chunks of
\* ResidentAtStart applied by a batch, no call made yet.
WorldInit ==
    /\ camera = Pose(0, 0, 0, 1)
    /\ chunks = [q \in ResidentAtStart |->
                    chunk_data_of([voxels |-> generate_chunk(q)])]
    /\ loaded_chunks = [q \in ResidentAtStart |-> 5 + q.x]
    /\ to_load = << >>
    /\ to_unload = << >>
    /\ active_tasks = 0
    /\ pending_placeholders = << >>
    /\ placeholders = EmptyMap
    /\ tasks = << >>
    /\ completed = << >>
    /\ timer = 0
    /\ entities = {5, 6}
    /\ next_entity = 7
    /\ placeholder_alive = {}
    /\ pc = "idle"
    /\ frame = MaxFrames
    /\ moved = "no"
    /\ commands = << >>
    /\ drained = << >>
    /\ sim_pc = "idle"
    /\ tick = MaxTicks
    /\ call = [op |-> "none"]
    /\ ret = "none"
    /\ calls = 0

WorldNext ==
    \/ call_get
    \/ call_set
    \/ call_get_voxel
    \/ call_set_voxel

WorldSpec == WorldInit /\ [][WorldNext]_vars

---------------------------------------------------------------------------
(* domains/thermal/api.rs: direct calls of ThermalApi                      *)

\* The temperatures handed to set_temp: the defaults of Stone, Grass and
\* Air, values within TEMP_EPSILON of the defaults of Stone and Air, the
\* first value that is not, a value above TEMP_HOT_THRESHOLD and a value
\* below TEMP_COLD_THRESHOLD.
ApiTemps == {12000, 12050, 18000, 20000, 20099, 20100, 500000, 0 - 5000}

\* The heat handed to add_heat: 100, 200 and 8000 units, and 8000 units
\* drawn.  On Stone 100 units are 0.05 degrees and 200 units 0.1 degrees.
ApiHeats == {100000, 200000, 8000000, 0 - 8000000}

\* A caller sets the temperature of a cell of a resident chunk.
call_set_temp ==
    /\ pc = "idle" /\ sim_pc = "idle"
    /\ calls < MaxCalls
    /\ \E chunk_pos \in DOMAIN chunks, idx \in CommandCells,
          temp \in ApiTemps :
          /\ call' = [op |-> "set_temp", chunk_pos |-> chunk_pos,
                      idx |-> idx, temp |-> temp]
          /\ chunks' = [chunks EXCEPT ![chunk_pos] =
                            set_temp(chunks[chunk_pos], idx, temp)]
    /\ ret' = "unit"
    /\ calls' = calls + 1
    /\ UNCHANGED << streamVars, simVars >>

\* A caller adds heat to a cell of a resident chunk.
call_add_heat ==
    /\ pc = "idle" /\ sim_pc = "idle"
    /\ calls < MaxCalls
    /\ \E chunk_pos \in DOMAIN chunks, idx \in CommandCells,
          heat \in ApiHeats :
          /\ call' = [op |-> "add_heat", chunk_pos |-> chunk_pos,
                      idx |-> idx, heat |-> heat]
          /\ chunks' = [chunks EXCEPT ![chunk_pos] =
                            add_heat(chunks[chunk_pos], idx, heat)]
    /\ ret' = "unit"
    /\ calls' = calls + 1
    /\ UNCHANGED << streamVars, simVars >>

ThermalNext ==
    \/ call_set_temp
    \/ call_add_heat

\* Direct calls of ThermalApi on the world of WorldInit.
ThermalSpec == WorldInit /\ [][ThermalNext]_vars

---------------------------------------------------------------------------
(* mesh_gen.rs, mesh.rs, loading.rs: the mesh of a chunk, vertex by vertex *)

\* The height build_chunk_mesh_async and NeighborEdges loop over.
\* constants.rs declares no CHUNK_HEIGHT; the chunk is a cube of edge
\* CHUNK_SIZE (chunk.rs, VOXEL_COUNT) and the loops index its voxel array.
CHUNK_HEIGHT == CHUNK_SIZE

\* Option<Vec<VoxelKind>> and Option<VoxelKind>
None == [some |-> FALSE]

Some(v) == [some |-> TRUE, value |-> v]

\* NeighborEdges::default()
NeighborEdgesDefault ==
    [pos_x |-> None, neg_x |-> None, pos_z |-> None, neg_z |-> None]

\* NeighborEdges::get_neighbor; a face is indexed from 0.
get_neighbor(neighbor_edges, local_pos, dir) ==
    LET at(edge, j) == IF edge.some THEN Some(edge.value[j]) ELSE None
    IN  CASE dir = << 1, 0, 0 >> /\ local_pos.x = CHUNK_SIZE - 1 ->
                at(neighbor_edges.pos_x,
                   local_pos.y * CHUNK_SIZE + local_pos.z)
          [] dir = << 0 - 1, 0, 0 >> /\ local_pos.x = 0 ->
                at(neighbor_edges.neg_x,
                   local_pos.y * CHUNK_SIZE + local_pos.z)
          [] dir = << 0, 0, 1 >> /\ local_pos.z = CHUNK_SIZE - 1 ->
                at(neighbor_edges.pos_z,
                   local_pos.y * CHUNK_SIZE + local_pos.x)
          [] dir = << 0, 0, 0 - 1 >> /\ local_pos.z = 0 ->
                at(neighbor_edges.neg_z,
                   local_pos.y * CHUNK_SIZE + local_pos.x)
          [] OTHER -> None

\* The directions of build_chunk_mesh_async in the order of its array.
direction_list ==
    << << 1, 0, 0 >>, << 0 - 1, 0, 0 >>, << 0, 1, 0 >>, << 0, 0 - 1, 0 >>,
       << 0, 0, 1 >>, << 0, 0, 0 - 1 >> >>

\* mesh.rs: get_face_vertices
get_face_vertices(x, y, z, dir) ==
    CASE dir = << 1, 0, 0 >> ->
            << << x + 1, y, z >>, << x + 1, y, z + 1 >>,
               << x + 1, y + 1, z + 1 >>, << x + 1, y + 1, z >> >>
      [] dir = << 0 - 1, 0, 0 >> ->
            << << x, y, z + 1 >>, << x, y, z >>,
               << x, y + 1, z >>, << x, y + 1, z + 1 >> >>
      [] dir = << 0, 1, 0 >> ->
            << << x, y + 1, z >>, << x + 1, y + 1, z >>,
               << x + 1, y + 1, z + 1 >>, << x, y + 1, z + 1 >> >>
      [] dir = << 0, 0 - 1, 0 >> ->
            << << x, y, z + 1 >>, << x + 1, y, z + 1 >>,
               << x + 1, y, z >>, << x, y, z >> >>
      [] dir = << 0, 0, 1 >> ->
            << << x + 1, y, z + 1 >>, << x, y, z + 1 >>,
               << x, y + 1, z + 1 >>, << x + 1, y + 1, z + 1 >> >>
      [] dir = << 0, 0, 0 - 1 >> ->
            << << x, y, z >>, << x + 1, y, z >>,
               << x + 1, y + 1, z >>, << x, y + 1, z >> >>
      [] OTHER ->
            << << 0, 0, 0 >>, << 0, 0, 0 >>, << 0, 0, 0 >>, << 0, 0, 0 >> >>

\* The neighbour build_chunk_mesh_async reads next to a face: the cell of
\* the chunk, Air beyond the chunk in y, else the cell of the boundary
\* slice, else Air.
neighbor_of(input, local_pos, dir) ==
    LET nx == local_pos.x + dir[1]
        ny == local_pos.y + dir[2]
        nz == local_pos.z + dir[3]
    IN  IF /\ nx >= 0 /\ nx < CHUNK_SIZE
           /\ ny >= 0 /\ ny < CHUNK_HEIGHT
           /\ nz >= 0 /\ nz < CHUNK_SIZE
        THEN input.voxels[index(nx, ny, nz)]
        ELSE IF ny < 0 \/ ny >= CHUNK_HEIGHT
             THEN "Air"
             ELSE LET found == get_neighbor(input.neighbor_edges, local_pos,
                                            dir)
                  IN  IF found.some THEN found.value ELSE "Air"

\* A face test without the rule for two Water cells.
face_emitted_any_transparent(input, i, dir) ==
    /\ input.voxels[i] # "Air"
    /\ is_transparent(neighbor_of(input, idx_to_xyz(i), dir))

\* Whether build_chunk_mesh_async reaches add_face_deduplicated for the
\* face of cell i in direction dir.
face_emitted(input, i, dir) ==
    LET kind == input.voxels[i]
        neighbor == neighbor_of(input, idx_to_xyz(i), dir)
    IN  /\ kind # "Air"
        /\ is_transparent(neighbor)
        /\ ~ (kind = "Water" /\ neighbor = "Water")

\* build_chunk_mesh_async with the buffers of ChunkMeshBuilder spelled out:
\* the faces in loop order (y, z, x, then direction), the vertices of
\* add_face_deduplicated in order of first use, keyed by position, normal
\* and colour (the colour of a kind stands for the kind), and six indices
\* per face.
build_mesh_buffers(input) ==
    LET slots == [s \in 1 .. (6 * VOXEL_COUNT) |-> s - 1]
        cell(s) == s \div 6
        dir(s) == direction_list[(s % 6) + 1]
        faces == SelectSeq(slots,
                           LAMBDA s : face_emitted(input, cell(s), dir(s)))
        count == Len(faces)
        corner == [n \in 1 .. (4 * count) |->
                     LET s == faces[((n - 1) \div 4) + 1]
                         l == idx_to_xyz(cell(s))
                     IN  [pos |-> get_face_vertices(l.x, l.y, l.z, dir(s))
                                      [((n - 1) % 4) + 1],
                          normal |-> dir(s),
                          color |-> input.voxels[cell(s)]]] \o << >>
        is_new == [n \in 1 .. (4 * count) |->
                     \A j \in 1 .. (n - 1) : corner[j] # corner[n]] \o << >>
        kept == SelectSeq([n \in 1 .. (4 * count) |-> n],
                          LAMBDA n : is_new[n])
        vertex_index == [n \in 1 .. (4 * count) |->
                            (CHOOSE v \in 1 .. Len(kept) :
                                corner[kept[v]] = corner[n]) - 1] \o << >>
        order == << 1, 3, 2, 1, 4, 3 >>
    IN  [vertices |-> [v \in 1 .. Len(kept) |-> corner[kept[v]]],
         indices |-> [m \in 1 .. (6 * count) |->
                        vertex_index[4 * ((m - 1) \div 6)
                                       + order[((m - 1) % 6) + 1]]]]

\* A boundary slice that alternates two kinds along its index.
Striped(a, b) ==
    [j \in 0 .. (CHUNK_HEIGHT * CHUNK_SIZE - 1) |->
        IF j % 2 = 0 THEN a ELSE b]

\* The boundary slices handed to build_chunk_mesh_async: none, as
\* generate_chunk_and_mesh_async hands them, all four, and the +X one alone.
EdgeInputs ==
    { NeighborEdgesDefault,
      [pos_x |-> Some(Striped("Water", "Stone")),
       neg_x |-> Some(Striped("Stone", "Air")),
       pos_z |-> Some(Striped("Air", "Water")),
       neg_z |-> Some(Striped("Stone", "Water"))],
      [NeighborEdgesDefault EXCEPT
          !.pos_x = Some(Striped("OakLeaves", "OakLeaves"))] }

\* The kinds of the voxel arrays handed to build_chunk_mesh_async: Air, an
\* opaque kind, Water and a transparent kind that is not Water.
MeshKinds == {"Air", "Stone", "Water", "OakLeaves"}

\* The voxel arrays handed to build_chunk_mesh_async: one kind everywhere
\* but in two cells.
VoxelInputs ==
    { [i \in Cells |-> IF i = a THEN ka ELSE IF i = b THEN kb ELSE base] :
        a \in Cells, b \in Cells, ka \in MeshKinds, kb \in MeshKinds,
        base \in {"Air", "Stone", "Water"} }

\* A worker builds the mesh of a voxel array; the call reads nothing but
\* its input, so one call of each behaviour shows all of them.
call_build_chunk_mesh_async ==
    /\ pc = "idle" /\ sim_pc = "idle"
    /\ calls = 0
    /\ \E voxels \in VoxelInputs, neighbor_edges \in EdgeInputs :
          LET input == [voxels |-> voxels, neighbor_edges |-> neighbor_edges]
          IN  /\ call' = [op |-> "build_chunk_mesh_async", input |-> input]
              /\ ret' = build_mesh_buffers(input)
    /\ calls' = calls + 1
    /\ UNCHANGED << chunks, streamVars, simVars >>

MeshNext == call_build_chunk_mesh_async

\* Direct calls of build_chunk_mesh_async.
MeshSpec == WorldInit /\ [][MeshNext]_vars

---------------------------------------------------------------------------
(* terrain.rs, biome.rs: the terrain of a chunk with its trees             *)
(*                                                                         *)
(* The Perlin fields of WorldSeed are inputs: a landscape gives the height *)
(* and the climate of the columns and the value of detail_noise that       *)
(* should_place_tree reads, in thousandths.  The landscapes have no caves, *)
(* no ores and no floating islands.  Heights and levels keep the values    *)
(* of the code; only the chunk edge is scaled.                             *)

\* terrain.rs: WATER_LEVEL in generate_chunk
WATER_LEVEL == 30

\* TerrainGenerator::get_height over a landscape.
height_of(land, x, z) == IF land.height < 1 THEN 1 ELSE land.height

\* TerrainGenerator::get_biome over a landscape: Ocean and Beach by height,
\* else the biome the temperature and humidity fields select.
get_biome(land, x, z) ==
    IF height_of(land, x, z) < 28 THEN "Ocean"
    ELSE IF height_of(land, x, z) < 32 THEN "Beach"
    ELSE land.climate

\* Biome::surface_block
surface_block(biome) ==
    CASE biome \in {"Plains", "Forest", "BirchForest", "Taiga",
                    "FloatingIslands"} -> "Grass"
      [] biome \in {"Desert", "Beach"} -> "Sand"
      [] biome = "Snowy" -> "Snow"
      [] biome = "Ocean" -> "Gravel"

\* Biome::subsurface_block
subsurface_block(biome) ==
    CASE biome \in {"Plains", "Forest", "BirchForest", "Taiga", "Snowy",
                    "FloatingIslands"} -> "Dirt"
      [] biome \in {"Desert", "Beach"} -> "Sand"
      [] biome = "Ocean" -> "Clay"

\* TerrainGenerator::should_place_tree: the chance of the biome in
\* thousandths, and the noise test.
should_place_tree(land, x, z, biome) ==
    LET tree_chance == CASE biome \in {"Forest", "Taiga"} -> 60
                         [] biome = "BirchForest" -> 40
                         [] biome = "Plains" -> 3
                         [] OTHER -> 0
        noise == IF << x, z >> = land.tree_at THEN land.noise ELSE 0
    IN  IF tree_chance = 0 THEN FALSE
        ELSE noise > 1000 - (tree_chance * 2)

\* The match of generate_tree_partial: log, leaves and trunk height of a
\* biome, or no tree.
tree_of(biome) ==
    CASE biome \in {"Forest", "Plains"} ->
            [some |-> TRUE, log |-> "OakLog", leaves |-> "OakLeaves",
             trunk_h |-> 5]
      [] biome = "BirchForest" ->
            [some |-> TRUE, log |-> "BirchLog", leaves |-> "BirchLeaves",
             trunk_h |-> 6]
      [] biome \in {"Taiga", "Snowy"} ->
            [some |-> TRUE, log |-> "SpruceLog", leaves |-> "SpruceLeaves",
             trunk_h |-> 6]
      [] biome = "FloatingIslands" ->
            [some |-> TRUE, log |-> "OakLog", leaves |-> "OakLeaves",
             trunk_h |-> 4]
      [] OTHER -> [some |-> FALSE]

\* TerrainGenerator::generate_tree_partial: the trunk and the leaves of one
\* tree, clipped to the chunk.  No leaf falls on a trunk cell of the same
\* tree, so the two loops are applied at once.
generate_tree_partial(voxels, local_x, tree_base_world_y, local_z, biome, chunk_y_min, chunk_y_max) ==
    LET t == tree_of(biome)
        leaf_start == t.trunk_h - 2
        trunk(i) ==
            LET l == idx_to_xyz(i)
                dy == (chunk_y_min + l.y) - tree_base_world_y
            IN  /\ l.x = local_x /\ l.z = local_z
                /\ dy >= 0 /\ dy < t.trunk_h
        leaf(i) ==
            LET l == idx_to_xyz(i)
                dy == (chunk_y_min + l.y) - tree_base_world_y
                dx == l.x - local_x
                dz == l.z - local_z
                radius == IF dy >= t.trunk_h THEN 1 ELSE 2
            IN  /\ dy >= leaf_start /\ dy < t.trunk_h + 2
                /\ Abs(dx) <= radius /\ Abs(dz) <= radius
                /\ ~ (dx = 0 /\ dz = 0 /\ dy < t.trunk_h)
                /\ Abs(dx) + Abs(dz) <= radius + 1
    IN  IF ~ t.some THEN voxels
        ELSE [i \in Cells |-> IF leaf(i) THEN t.leaves
                              ELSE IF trunk(i) THEN t.log
                              ELSE voxels[i]]

\* The surface-tree loop of generate_chunk over the columns of the chunk in
\* loop order (lz, then lx), from column number n on.
RECURSIVE stamp_trees(_, _, _, _)
stamp_trees(voxels, land, origin, n) ==
    IF n >= CHUNK_SIZE * CHUNK_SIZE THEN voxels
    ELSE LET lx == n % CHUNK_SIZE
             lz == n \div CHUNK_SIZE
             world_x == origin.x + lx
             world_z == origin.z + lz
             height == height_of(land, world_x, world_z)
             biome == get_biome(land, world_x, world_z)
         IN  stamp_trees(
                IF height > WATER_LEVEL
                     /\ should_place_tree(land, world_x, world_z, biome)
                THEN generate_tree_partial(voxels, lx, height + 1, lz, biome,
                                           origin.y,
                                           origin.y + CHUNK_SIZE - 1)
                ELSE voxels,
                land, origin, n + 1)

\* TerrainGenerator::generate_chunk over a landscape: the column fill, then
\* the surface trees.
generate_chunk_over(land, chunk_pos) ==
    LET origin == world_origin(chunk_pos)
        chunk_y_min == origin.y
        chunk_y_max == origin.y + CHUNK_SIZE - 1
        kind(i) ==
            LET l == idx_to_xyz(i)
                world_x == origin.x + l.x
                world_y == chunk_y_min + l.y
                world_z == origin.z + l.z
                height == height_of(land, world_x, world_z)
                biome == get_biome(land, world_x, world_z)
            IN  IF world_y = BEDROCK_LAYER THEN "Stone"
                ELSE IF world_y < height
                THEN IF world_y = height - 1 THEN surface_block(biome)
                     ELSE IF world_y > height - 5
                          THEN subsurface_block(biome)
                          ELSE "Stone"
                ELSE IF world_y >= height /\ world_y <= WATER_LEVEL
                THEN IF biome = "Snowy" /\ world_y = WATER_LEVEL
                     THEN "Ice" ELSE "Water"
                ELSE "Air"
        filled == [i \in Cells |-> kind(i)]
    IN  IF chunk_y_min <= WATER_LEVEL + 10 /\ chunk_y_max >= WATER_LEVEL
        THEN stamp_trees(filled, land, origin, 0)
        ELSE filled

\* The landscapes: a plain of one height, below the water, on the beach
\* and above it, of one climate, with one column where detail_noise is
\* high.
Landscapes ==
    { [height |-> h, climate |-> c, tree_at |-> t, noise |-> n] :
        h \in {27, 31, 32, 36},
        c \in {"Forest", "BirchForest", "Plains", "Snowy", "Desert"},
        t \in {<< 0, 0 >>, << CHUNK_SIZE - 1, 0 >>},
        n \in {0, 900, 999} }

\* The chunks generated: the column of chunks over the high column, and
\* its neighbours in x and z, from the water level up.
TerrainChunks ==
    { ChunkPos(x, y, z) :
        x \in (0 - 1) .. 1,
        y \in (WATER_LEVEL \div CHUNK_SIZE) .. ((WATER_LEVEL + 14)
                                                    \div CHUNK_SIZE),
        z \in (0 - 1) .. 0 }

\* A worker generates the terrain of a chunk; the call reads nothing but
\* its input, so one call of each behaviour shows all of them.
call_generate_chunk ==
    /\ pc = "idle" /\ sim_pc = "idle"
    /\ calls = 0
    /\ \E land \in Landscapes, chunk_pos \in TerrainChunks :
          /\ call' = [op |-> "generate_chunk", land |-> land,
                      chunk_pos |-> chunk_pos]
          /\ ret' = generate_chunk_over(land, chunk_pos)
    /\ calls' = calls + 1
    /\ UNCHANGED << chunks, streamVars, simVars >>

TerrainNext == call_generate_chunk

\* Direct calls of TerrainGenerator::generate_chunk.
TerrainSpec == WorldInit /\ [][TerrainNext]_vars

---------------------------------------------------------------------------
(* Properties of Commit and of the simulation stages                       *)

\* C1: when the queue one Commit drains holds a SetBlock for cell i, the
\* kind of cell i after Commit is the new_voxel of the first SetBlock for i
\* in queue order, and nothing else the queue holds for i shows: the flags,
\* the variant, the override, the membership in the active sets of cell i
\* are as before, and the change log gains for i the one SetVoxel entry.
C1_SetBlockPriority ==
    [][ (sim_pc = "commit_system" /\ sim_pc' = "cleanup_changes_system") =>
          \A i \in {commands[k].idx : k \in DOMAIN commands} \cap Cells :
             LET sets == {k \in DOMAIN commands :
                             /\ commands[k].idx = i
                             /\ commands[k].type = "SetBlock"}
             IN  sets # {} =>
                   LET first == CHOOSE k \in sets : \A j \in sets : k <= j
                       new_voxel == commands[first].new_voxel
                   IN  \A q \in DOMAIN chunks :
                         /\ chunks'[q].voxels[i] = new_voxel
                         /\ chunks'[q].flags[i] = chunks[q].flags[i]
                         /\ chunks'[q].variant[i] = chunks[q].variant[i]
                         /\ (i \in DOMAIN chunks'[q].thermal_state.temp_overrides)
                              = (i \in DOMAIN chunks[q].thermal_state.temp_overrides)
                         /\ i \in DOMAIN chunks[q].thermal_state.temp_overrides
                              => chunks'[q].thermal_state.temp_overrides[i]
                                   = chunks[q].thermal_state.temp_overrides[i]
                         /\ (i \in chunks'[q].active_thermal)
                              = (i \in chunks[q].active_thermal)
                         /\ (i \in chunks'[q].active_burning)
                              = (i \in chunks[q].active_burning)
                         /\ (i \in chunks'[q].active_freezing)
                              = (i \in chunks[q].active_freezing)
                         /\ (i \in chunks'[q].active_melting)
                              = (i \in chunks[q].active_melting)
                         /\ SelectSeq(chunks'[q].changes,
                                      LAMBDA c : c.idx = i)
                              = SelectSeq(chunks[q].changes,
                                          LAMBDA c : c.idx = i)
                                  \o << SetVoxelChange(i, chunks[q].voxels[i],
                                                       new_voxel) >>
                         /\ SelectSeq(chunks'[q].dirty_blocks,
                                      LAMBDA d : d = i)
                              = SelectSeq(chunks[q].dirty_blocks,
                                          LAMBDA d : d = i) \o << i >>
      ]_vars

\* A Commit has drained an Ignite followed by a SetBlock for the same cell:
\* the cell holds the new kind and does not burn.
C1_Witness ==
    /\ sim_pc = "cleanup_changes_system"
    /\ \E i \in CommandCells :
          /\ drained = << Ignite(i, 1000), SetBlock(i, "OakLog") >>
          /\ \A q \in DOMAIN chunks :
                /\ chunks[q].voxels[i] = "OakLog"
                /\ "BURNING" \notin chunks[q].flags[i]

\* C2: thermal_diffusion_system and heat_source_system leave the kinds, the
\* flags, the variants, the thermal overrides, the active sets and the
\* change logs of every resident chunk as they were; only Commit writes
\* them.
C2_OnlyCommitWrites ==
    [][ (sim_pc \in {"thermal_diffusion_system", "heat_source_system"}
            /\ sim_pc' # sim_pc) =>
          \A q \in DOMAIN chunks :
             /\ chunks'[q].voxels = chunks[q].voxels
             /\ chunks'[q].flags = chunks[q].flags
             /\ chunks'[q].variant = chunks[q].variant
             /\ chunks'[q].thermal_state.temp_overrides
                  = chunks[q].thermal_state.temp_overrides
             /\ chunks'[q].active_thermal = chunks[q].active_thermal
             /\ chunks'[q].active_burning = chunks[q].active_burning
             /\ chunks'[q].changes = chunks[q].changes
             /\ chunks'[q].dirty_blocks = chunks[q].dirty_blocks
      ]_vars

---------------------------------------------------------------------------
(* Properties of the streaming scheduler                                   *)

\* C3: no state holds more than max_concurrent_tasks tasks; one
\* spawn_mesh_tasks pass takes at most max_concurrent_tasks - active_tasks
\* coordinates, all from the front of to_load, gives tasks to those only,
\* and leaves the rest of to_load in its order.
C3_BoundedTasks ==
    /\ [](Len(tasks) <= max_concurrent_tasks)
    /\ [][ (pc = "spawn_mesh_tasks" /\ pc' = "handle_completed_mesh_tasks") =>
             LET n == Len(to_load) - Len(to_load')
             IN  /\ n >= 0
                 /\ n <= max_concurrent_tasks - active_tasks
                 /\ to_load' = SubSeq(to_load, n + 1, Len(to_load))
                 /\ Len(tasks') >= Len(tasks)
                 /\ Len(tasks') - Len(tasks) <= n
                 /\ SubSeq(tasks', 1, Len(tasks)) = tasks
                 /\ \A t \in (Len(tasks) + 1) .. Len(tasks') :
                       \E k \in 1 .. n : tasks'[t].chunk_pos = to_load[k]
         ]_vars

\* Every task slot is taken and coordinates wait in to_load.
C3_Witness ==
    /\ pc = "handle_completed_mesh_tasks"
    /\ Len(tasks) = max_concurrent_tasks
    /\ active_tasks = max_concurrent_tasks
    /\ to_load # << >>

\* C4 as stated: after every update_chunk_loading pass to_load holds exactly
\* the coordinates within the load radii of the observer's chunk that pass
\* the frustum test and are neither in chunks, nor in loaded_chunks, nor the
\* target of a task, each once.
C4_ExactlyQualifying ==
    [][ (pc = "update_chunk_loading" /\ pc' = "spawn_batch_placeholders") =>
          LET c == center_chunk_of(camera)
              qualifying ==
                  { q \in { ChunkPos(c.x + d[1], c.y + d[2], c.z + d[3]) :
                              d \in ((0 - RENDER_DISTANCE) .. RENDER_DISTANCE)
                                 \X ((0 - VERTICAL_RENDER_DISTANCE)
                                        .. VERTICAL_RENDER_DISTANCE)
                                 \X ((0 - RENDER_DISTANCE) .. RENDER_DISTANCE) } :
                      /\ is_chunk_in_frustum(q, camera)
                      /\ q \notin DOMAIN chunks
                      /\ q \notin DOMAIN loaded_chunks
                      /\ \A t \in DOMAIN tasks : tasks[t].chunk_pos # q }
          IN  /\ {to_load'[k] : k \in DOMAIN to_load'} = qualifying
              /\ \A j, k \in DOMAIN to_load' :
                    j # k => to_load'[j] # to_load'[k]
      ]_vars

\* C4, amended: after every update_chunk_loading pass to_load holds every
\* such coordinate, each of its entries is such a coordinate or was queued
\* before the pass, and no coordinate appears twice.
C4_QualifyingAndQueued ==
    [][ (pc = "update_chunk_loading" /\ pc' = "spawn_batch_placeholders") =>
          LET c == center_chunk_of(camera)
              qualifying ==
                  { q \in { ChunkPos(c.x + d[1], c.y + d[2], c.z + d[3]) :
                              d \in ((0 - RENDER_DISTANCE) .. RENDER_DISTANCE)
                                 \X ((0 - VERTICAL_RENDER_DISTANCE)
                                        .. VERTICAL_RENDER_DISTANCE)
                                 \X ((0 - RENDER_DISTANCE) .. RENDER_DISTANCE) } :
                      /\ is_chunk_in_frustum(q, camera)
                      /\ q \notin DOMAIN chunks
                      /\ q \notin DOMAIN loaded_chunks
                      /\ \A t \in DOMAIN tasks : tasks[t].chunk_pos # q }
          IN  /\ {to_load'[k] : k \in DOMAIN to_load'}
                    = {to_load[k] : k \in DOMAIN to_load} \cup qualifying
              /\ \A j, k \in DOMAIN to_load' :
                    j # k => to_load'[j] # to_load'[k]
      ]_vars

\* A pass has run for an observer who moved before it, and to_load holds
\* both a coordinate within the load radii of the observer's chunk and one,
\* queued by an earlier pass, outside them.
C4_Witness ==
    /\ pc = "spawn_batch_placeholders"
    /\ moved = "update_chunk_loading"
    /\ frame > 1
    /\ LET c == center_chunk_of(camera)
           near(q) == /\ Abs(q.x - c.x) <= RENDER_DISTANCE
                      /\ Abs(q.y - c.y) <= VERTICAL_RENDER_DISTANCE
                      /\ Abs(q.z - c.z) <= RENDER_DISTANCE
       IN  /\ \E k \in DOMAIN to_load : near(to_load[k])
           /\ \E k \in DOMAIN to_load : ~ near(to_load[k])

\* C5: after every update_chunk_loading pass to_load is in non-decreasing
\* order of squared distance from the observer's chunk, the entries of
\* earlier passes included.
C5_SortedByDistance ==
    [][ (pc = "update_chunk_loading" /\ pc' = "spawn_batch_placeholders") =>
          \A j, k \in DOMAIN to_load' :
             j < k => DistSq(to_load'[j], center_chunk_of(camera))
                        <= DistSq(to_load'[k], center_chunk_of(camera))
      ]_vars

\* A pass has run for an observer in another chunk than the one of the pass
\* before, and an entry of that pass, no longer within the load radii,
\* stands behind a nearer one.
C5_Witness ==
    /\ pc = "spawn_batch_placeholders"
    /\ moved = "update_chunk_loading"
    /\ frame > 1
    /\ center_chunk_of(camera) # ChunkPos(0, 0, 0)
    /\ \E j, k \in DOMAIN to_load :
          /\ j < k
          /\ DistSq(to_load[j], center_chunk_of(camera))
                < DistSq(to_load[k], center_chunk_of(camera))
          /\ Abs(to_load[k].x - center_chunk_of(camera).x) > RENDER_DISTANCE
          /\ DistSq(to_load[k], ChunkPos(0, 0, 0))
                < DistSq(to_load[j], ChunkPos(0, 0, 0))

\* C6: a pass of apply_chunk_replacements over an empty buffer changes
\* neither the buffer nor chunks nor loaded_chunks; over a non-empty buffer
\* it applies, for the frame time it is given, exactly when the buffer holds
\* min_batch_size results or the advanced timer has reached interval: then
\* every buffered result is resident, the buffer is empty and the timer is
\* 0; otherwise the timer is advanced and buffer, chunks and loaded_chunks
\* are unchanged.
C6_BatchTrigger ==
    [][ (pc = "apply_chunk_replacements" /\ pc' = "process_chunk_unload") =>
          IF completed = << >>
          THEN UNCHANGED << completed, chunks, loaded_chunks >>
          ELSE \E delta_secs \in DeltaSecs :
                  IF Len(completed) >= min_batch_size
                        \/ timer + delta_secs >= interval
                  THEN /\ completed' = << >>
                       /\ timer' = 0
                       /\ \A k \in DOMAIN completed :
                             completed[k].chunk_pos \in DOMAIN chunks'
                  ELSE /\ timer' = timer + delta_secs
                       /\ UNCHANGED << completed, chunks, loaded_chunks >>
      ]_vars

\* Two results wait in the buffer a third of the interval after the first
\* arrived: the pass has not applied them.
C6_Witness ==
    /\ pc = "process_chunk_unload"
    /\ Len(completed) = min_batch_size - 1
    /\ timer = interval \div 3
    /\ \A k \in DOMAIN completed : completed[k].chunk_pos \notin DOMAIN chunks

\* C7: after a batch apply every result of the buffer is resident with the
\* voxel array its task produced and is_dirty = FALSE, its placeholder
\* entity is despawned, its coordinate has no entry in the placeholder map,
\* and the buffer is empty.
C7_AppliedResults ==
    [][ (pc = "apply_chunk_replacements" /\ pc' = "process_chunk_unload"
            /\ completed # << >> /\ timer' = 0) =>
          /\ completed' = << >>
          /\ \A k \in DOMAIN completed :
                /\ completed[k].chunk_pos \in DOMAIN chunks'
                /\ chunks'[completed[k].chunk_pos].voxels = completed[k].voxels
                /\ completed[k].voxels = generate_chunk(completed[k].chunk_pos)
                /\ chunks'[completed[k].chunk_pos].is_dirty = FALSE
                /\ completed[k].placeholder_entity \notin entities'
                /\ completed[k].chunk_pos \notin DOMAIN placeholders'
      ]_vars

\* A batch has been applied: chunks are resident and clean, none of them has
\* a placeholder, the buffer is empty.
C7_Witness ==
    /\ pc = "process_chunk_unload"
    /\ timer = 0
    /\ completed = << >>
    /\ Cardinality(DOMAIN chunks) >= 2
    /\ \A q \in DOMAIN chunks :
          /\ ~ chunks[q].is_dirty
          /\ chunks[q].voxels = generate_chunk(q)
          /\ q \notin DOMAIN placeholders

\* C8: a batch apply spawns one render entity for each buffered result whose
\* mesh has an index and none for the others: a result with indices has a
\* fresh live entity in loaded_chunks, a result without is resident and got
\* no entity.
C8_RenderEntityIffGeometry ==
    [][ (pc = "apply_chunk_replacements" /\ pc' = "process_chunk_unload"
            /\ completed # << >> /\ timer' = 0) =>
          /\ next_entity' - next_entity
                = Cardinality({k \in DOMAIN completed :
                                  completed[k].mesh.indices > 0})
          /\ \A k \in DOMAIN completed :
                IF completed[k].mesh.indices > 0
                THEN /\ completed[k].chunk_pos \in DOMAIN loaded_chunks'
                     /\ loaded_chunks'[completed[k].chunk_pos] >= next_entity
                     /\ loaded_chunks'[completed[k].chunk_pos] \in entities'
                ELSE /\ completed[k].chunk_pos \in DOMAIN chunks'
                     /\ completed[k].chunk_pos \in DOMAIN loaded_chunks' =>
                           /\ completed[k].chunk_pos \in DOMAIN loaded_chunks
                           /\ loaded_chunks'[completed[k].chunk_pos]
                                = loaded_chunks[completed[k].chunk_pos]
      ]_vars

\* After a batch apply one chunk is resident with a render entity and
\* another, whose mesh is empty, without.
C8_Witness ==
    /\ pc = "process_chunk_unload"
    /\ \E q \in DOMAIN chunks :
          /\ q \in DOMAIN loaded_chunks
          /\ loaded_chunks[q] \in entities
          /\ build_chunk_mesh_async(chunks[q].voxels).indices > 0
    /\ \E q \in DOMAIN chunks :
          /\ q \notin DOMAIN loaded_chunks
          /\ build_chunk_mesh_async(chunks[q].voxels).indices = 0

\* C9 as stated: after a batch apply every coordinate of the buffer has an
\* entry in loaded_chunks, with or without geometry.
C9_AlwaysInLoadedChunks ==
    [][ (pc = "apply_chunk_replacements" /\ pc' = "process_chunk_unload"
            /\ completed # << >> /\ timer' = 0) =>
          \A k \in DOMAIN completed :
             completed[k].chunk_pos \in DOMAIN loaded_chunks'
      ]_vars

\* C9, amended: after a batch apply a coordinate of the buffer has an entry
\* in loaded_chunks exactly when its mesh has an index.
C9_InLoadedChunksIffGeometry ==
    [][ (pc = "apply_chunk_replacements" /\ pc' = "process_chunk_unload"
            /\ completed # << >> /\ timer' = 0) =>
          \A k \in DOMAIN completed :
             (completed[k].chunk_pos \in DOMAIN loaded_chunks')
                = (completed[k].mesh.indices > 0)
      ]_vars

\* A batch has just been applied and a chunk above the terrain, whose mesh
\* is empty, is resident without an entry in loaded_chunks.
C9_Witness ==
    /\ pc = "process_chunk_unload"
    /\ timer = 0
    /\ completed = << >>
    /\ \E q \in DOMAIN chunks :
          /\ q.y > 0
          /\ generate_chunk_and_mesh_async(q).mesh.indices = 0
          /\ q \notin DOMAIN loaded_chunks

\* C10 as stated: after update_chunk_loading a resident chunk is in
\* to_unload exactly when it lies outside the radii of the load loops, and
\* to_unload holds no coordinate twice.
C10_UnloadOutsideLoadRadii ==
    [][ (pc = "update_chunk_loading" /\ pc' = "spawn_batch_placeholders") =>
          LET c == center_chunk_of(camera)
          IN  /\ \A q \in DOMAIN chunks :
                    (\E k \in DOMAIN to_unload' : to_unload'[k] = q)
                       = (\/ Abs(q.x - c.x) > RENDER_DISTANCE
                          \/ Abs(q.y - c.y) > VERTICAL_RENDER_DISTANCE
                          \/ Abs(q.z - c.z) > RENDER_DISTANCE)
              /\ \A j, k \in DOMAIN to_unload' :
                    j # k => to_unload'[j] # to_unload'[k]
      ]_vars

\* C10, amended: after update_chunk_loading a resident chunk is in to_unload
\* exactly when it lies more than one chunk outside the load radii
\* (RENDER_DISTANCE + 1 horizontally, VERTICAL_RENDER_DISTANCE + 1
\* vertically), and to_unload holds no coordinate twice.
C10_UnloadBeyondMargin ==
    [][ (pc = "update_chunk_loading" /\ pc' = "spawn_batch_placeholders") =>
          LET c == center_chunk_of(camera)
          IN  /\ \A q \in DOMAIN chunks :
                    (\E k \in DOMAIN to_unload' : to_unload'[k] = q)
                       = (\/ Abs(q.x - c.x) > RENDER_DISTANCE + 1
                          \/ Abs(q.y - c.y) > VERTICAL_RENDER_DISTANCE + 1
                          \/ Abs(q.z - c.z) > RENDER_DISTANCE + 1)
              /\ \A j, k \in DOMAIN to_unload' :
                    j # k => to_unload'[j] # to_unload'[k]
      ]_vars

\* A pass has run for an observer who moved before it: one resident chunk,
\* beyond the margin, is in to_unload, and another, outside the load radii
\* but within the margin, is not.
C10_Witness ==
    /\ pc = "spawn_batch_placeholders"
    /\ moved = "update_chunk_loading"
    /\ LET c == center_chunk_of(camera)
       IN  /\ \E q \in DOMAIN chunks :
                 /\ Abs(q.x - c.x) > RENDER_DISTANCE + 1
                 /\ \E k \in DOMAIN to_unload : to_unload[k] = q
           /\ \E q \in DOMAIN chunks :
                 /\ Abs(q.x - c.x) = RENDER_DISTANCE + 1
                 /\ \A k \in DOMAIN to_unload : to_unload[k] # q

\* C11: after process_chunk_unload no coordinate of the drained to_unload has
\* an entry in chunks, loaded_chunks, the placeholder map, to_load,
\* pending_placeholders or the completed buffer, no task targets it, its
\* render entity is despawned and to_unload is empty; the entries, tasks and
\* entities of every other coordinate are as they were.
C11_UnloadRemovesEverything ==
    [][ (pc = "process_chunk_unload" /\ pc' = "cleanup_orphan_placeholders") =>
          LET U == Range(to_unload)
              others(m) == [q \in (DOMAIN m) \ U |-> m[q]]
          IN  /\ to_unload' = << >>
              /\ \A p \in U :
                    /\ p \notin DOMAIN chunks'
                    /\ p \notin DOMAIN loaded_chunks'
                    /\ p \notin DOMAIN placeholders'
                    /\ p \notin Range(to_load')
                    /\ p \notin Range(pending_placeholders')
                    /\ \A k \in DOMAIN completed' :
                          completed'[k].chunk_pos # p
                    /\ \A k \in DOMAIN tasks' : tasks'[k].chunk_pos # p
                    /\ p \in DOMAIN loaded_chunks =>
                          loaded_chunks[p] \notin entities'
              /\ chunks' = others(chunks)
              /\ loaded_chunks' = others(loaded_chunks)
              /\ placeholders' = others(placeholders)
              /\ to_load' = SelectSeq(to_load, LAMBDA q : q \notin U)
              /\ pending_placeholders' =
                     SelectSeq(pending_placeholders, LAMBDA q : q \notin U)
              /\ completed' =
                     SelectSeq(completed, LAMBDA c : c.chunk_pos \notin U)
              /\ tasks' = SelectSeq(tasks, LAMBDA t : t.chunk_pos \notin U)
              /\ \A q \in (DOMAIN loaded_chunks) \ U :
                    loaded_chunks[q] \in entities' <=>
                        loaded_chunks[q] \in entities
              /\ \A q \in (DOMAIN placeholders) \ U :
                    placeholders[q] \in entities' <=>
                        placeholders[q] \in entities
              /\ \A k \in DOMAIN tasks :
                    tasks[k].chunk_pos \notin U =>
                        (tasks[k].entity \in entities' <=>
                             tasks[k].entity \in entities)
      ]_vars

\* process_chunk_unload is about to handle a resident chunk that has a render
\* entity while another resident chunk stays.
C11_Witness ==
    /\ pc = "process_chunk_unload"
    /\ \E p \in Range(to_unload) :
          /\ p \in DOMAIN chunks
          /\ p \in DOMAIN loaded_chunks
          /\ loaded_chunks[p] \in entities
    /\ \E q \in DOMAIN chunks : q \notin Range(to_unload)

\* C12: when process_chunk_unload handles a coordinate that a task in flight
\* targets, the tracking entity and the placeholder of the task are
\* despawned, the task leaves the task table and active_tasks goes down by
\* exactly one for each such task.  The result of a cancelled task never
\* reaches the world: a task enters the table only with a fresh entity,
\* a result enters the buffer only from a task of the table, and a chunk
\* gains or changes its data only from a result of the buffer.
C12_UnloadCancelsTask ==
    /\ [][ (pc = "process_chunk_unload"
               /\ pc' = "cleanup_orphan_placeholders") =>
             LET cancelled == {k \in DOMAIN tasks :
                                  tasks[k].chunk_pos \in Range(to_unload)}
             IN  /\ \A k \in cancelled :
                       /\ tasks[k].entity \notin entities'
                       /\ tasks[k].placeholder_entity \notin entities'
                       /\ \A j \in DOMAIN tasks' : tasks'[j] # tasks[k]
                 /\ active_tasks' = active_tasks - Cardinality(cancelled)
                 /\ Len(tasks') = Len(tasks) - Cardinality(cancelled)
         ]_vars
    /\ [][ /\ \A j \in DOMAIN tasks' :
                 \/ \E k \in DOMAIN tasks : tasks[k] = tasks'[j]
                 \/ tasks'[j].entity >= next_entity
           /\ \A j \in DOMAIN completed' :
                 \/ \E k \in DOMAIN completed : completed[k] = completed'[j]
                 \/ \E k \in DOMAIN tasks :
                       /\ tasks[k].chunk_pos = completed'[j].chunk_pos
                       /\ tasks[k].placeholder_entity
                              = completed'[j].placeholder_entity
                       /\ tasks[k].entity \in entities
           /\ \A q \in DOMAIN chunks' :
                 \/ q \in DOMAIN chunks /\ chunks'[q] = chunks[q]
                 \/ \E k \in DOMAIN completed : completed[k].chunk_pos = q
           /\ \A q \in DOMAIN loaded_chunks' :
                 \/ q \in DOMAIN loaded_chunks
                        /\ loaded_chunks'[q] = loaded_chunks[q]
                 \/ \E k \in DOMAIN completed : completed[k].chunk_pos = q
         ]_vars

\* process_chunk_unload is about to handle a coordinate whose task is still
\* in flight.
C12_Witness ==
    /\ pc = "process_chunk_unload"
    /\ \E k \in DOMAIN tasks :
          /\ tasks[k].chunk_pos \in Range(to_unload)
          /\ tasks[k].entity \in entities
          /\ tasks[k].placeholder_entity \in entities

\* C13: cleanup_orphan_placeholders leaves in the placeholder map exactly the
\* entries whose coordinate is in to_load, in pending_placeholders or the
\* target of a task, each with the entity it had; the entity of every
\* removed entry is despawned and no other entity is.
C13_OrphansRemoved ==
    [][ (pc = "cleanup_orphan_placeholders" /\ pc' = "update_chunk_loading") =>
          LET qualifying ==
                  Range(to_load) \cup Range(pending_placeholders)
                      \cup {tasks[k].chunk_pos : k \in DOMAIN tasks}
          IN  /\ DOMAIN placeholders' = (DOMAIN placeholders) \cap qualifying
              /\ \A q \in DOMAIN placeholders' :
                    placeholders'[q] = placeholders[q]
              /\ entities' = entities \ {placeholders[q] :
                                q \in (DOMAIN placeholders) \ qualifying}
      ]_vars

\* After a cleanup a result waits in the buffer whose placeholder the cleanup
\* removed and despawned, and a coordinate with a task in flight kept its
\* placeholder.
C13_Witness ==
    /\ pc = "update_chunk_loading"
    /\ frame >= 1
    /\ \E k \in DOMAIN completed :
          /\ completed[k].chunk_pos \notin DOMAIN placeholders
          /\ completed[k].placeholder_entity \notin entities
    /\ \E k \in DOMAIN tasks :
          /\ tasks[k].chunk_pos \in DOMAIN placeholders
          /\ placeholders[tasks[k].chunk_pos] \in entities

C15_LifecycleOrder ==
    [][ /\ \A j \in DOMAIN tasks' :
              (\A k \in DOMAIN tasks : tasks[k] # tasks'[j]) =>
                  /\ pc = "spawn_mesh_tasks"
                  /\ \E i \in 1 .. (Len(to_load) - Len(to_load')) :
                        to_load[i] = tasks'[j].chunk_pos
        /\ \A j \in DOMAIN completed' :
              (\A k \in DOMAIN completed : completed[k] # completed'[j]) =>
                  /\ pc = "handle_completed_mesh_tasks"
                  /\ \E k \in DOMAIN tasks :
                        /\ tasks[k].chunk_pos = completed'[j].chunk_pos
                        /\ \A i \in DOMAIN tasks' : tasks'[i] # tasks[k]
                  /\ completed'[j].voxels
                         = generate_chunk(completed'[j].chunk_pos)
        /\ \A q \in DOMAIN chunks' :
              (q \notin DOMAIN chunks \/ chunks'[q] # chunks[q]) =>
                  /\ pc = "apply_chunk_replacements"
                  /\ completed' = << >>
                  /\ \E k \in DOMAIN completed :
                        /\ completed[k].chunk_pos = q
                        /\ chunks'[q].voxels = completed[k].voxels
      ]_vars

\* One coordinate is resident, another has a result in the buffer, another a
\* task in flight and another waits in to_load.
C15_Witness ==
    /\ pc = "apply_chunk_replacements"
    /\ \E a \in DOMAIN chunks, c \in DOMAIN completed, t \in DOMAIN tasks,
          w \in DOMAIN to_load :
          /\ chunks[a].voxels = generate_chunk(a)
          /\ Cardinality({a, completed[c].chunk_pos, tasks[t].chunk_pos,
                          to_load[w]}) = 4

\* C16: in every fixed tick the systems run in stage order:
\* thermal_diffusion_system, heat_source_system, commit_system,
\* cleanup_changes_system, and then the next tick.  The queue is drained
\* only by the step that follows heat_source_system, and the change logs are
\* cleared only by the step that follows Commit.
C16_StageOrder ==
    /\ [][ sim_pc' # sim_pc =>
             << sim_pc, sim_pc' >> \in
                 { << "thermal_diffusion_system", "heat_source_system" >>,
                   << "heat_source_system", "commit_system" >>,
                   << "commit_system", "cleanup_changes_system" >>,
                   << "cleanup_changes_system",
                      "thermal_diffusion_system" >> }
         ]_vars
    /\ [][ (commands # << >> /\ commands' = << >>) =>
             (sim_pc = "commit_system"
                 /\ sim_pc' = "cleanup_changes_system")
         ]_vars
    /\ [][ (\E q \in DOMAIN chunks :
               chunks[q].changes # << >> /\ chunks'[q].changes = << >>) =>
             (sim_pc = "cleanup_changes_system" /\ tick' = tick + 1)
         ]_vars
    /\ [][ tick' # tick => sim_pc = "cleanup_changes_system" ]_vars

\* In the second tick both field systems have run on a chunk with an active
\* cell, and Commit is about to take a queue that holds commands.
C16_Witness ==
    /\ sim_pc = "commit_system"
    /\ tick = 1
    /\ commands # << >>
    /\ \E q \in DOMAIN chunks :
          /\ chunks[q].active_thermal # {}
          /\ chunks[q].changes # << >>

\* C17: Commit drains the queue.  After commit_system the queue is empty and
\* the commands it took are those that were enqueued; outside Commit the
\* queue only grows at its end.  Each command Commit takes for a cell of the
\* chunk is executed in that Commit or discarded by conflict resolution
\* there: when the queue holds a SetBlock for the cell, the cell has the
\* kind of the first one; otherwise the entries the change log gains for the
\* cell show the command (AddMoisture has no effect to show).  A Commit that
\* finds the queue empty executes nothing, so no command is executed in a
\* tick after the one whose Commit took it.
C17_CommitDrainsQueue ==
    /\ [][ (sim_pc = "commit_system"
               /\ sim_pc' = "cleanup_changes_system") =>
             /\ commands' = << >>
             /\ drained' = commands
             /\ commands = << >> => chunks' = chunks
             /\ \A k \in DOMAIN commands : \A q \in DOMAIN chunks :
                   LET c == commands[k]
                       i == c.idx
                       gained == SelectSeq(
                           SubSeq(chunks'[q].changes,
                                  Len(chunks[q].changes) + 1,
                                  Len(chunks'[q].changes)),
                           LAMBDA e : e.idx = i)
                       has(type) == \E j \in DOMAIN gained :
                                        gained[j].type = type
                       has_flag(flag, on) ==
                           \E j \in DOMAIN gained :
                              /\ gained[j].type = "SetFlag"
                              /\ gained[j].flag = flag
                              /\ gained[j].set = on
                   IN  i \in Cells =>
                         IF \E j \in DOMAIN commands :
                               /\ commands[j].idx = i
                               /\ commands[j].type = "SetBlock"
                         THEN /\ has("SetVoxel")
                              /\ \E j \in DOMAIN commands :
                                    /\ commands[j].idx = i
                                    /\ commands[j].type = "SetBlock"
                                    /\ chunks'[q].voxels[i]
                                           = commands[j].new_voxel
                         ELSE CASE c.type = "AddFlag" ->
                                       has_flag(c.flag, TRUE)
                                [] c.type = "RemoveFlag" ->
                                       has_flag(c.flag, FALSE)
                                [] c.type \in {"SetVariant",
                                               "IncrementVariant",
                                               "DecrementVariant"} ->
                                       has("SetVariant")
                                [] c.type \in {"SetTemp", "AddHeat"} ->
                                       has("SetTemp")
                                [] c.type = "SetMoisture" ->
                                       has("SetMoisture")
                                [] c.type = "Ignite" ->
                                       has_flag("BURNING", TRUE)
                                [] c.type = "Extinguish" ->
                                       has_flag("BURNING", FALSE)
                                [] OTHER -> TRUE
         ]_vars
    /\ [][ (sim_pc # "commit_system" \/ sim_pc' = sim_pc) =>
             \/ commands' = commands
             \/ /\ Len(commands') = Len(commands) + 1
                /\ SubSeq(commands', 1, Len(commands)) = commands
         ]_vars

\* The Commit of the second tick has taken a full queue and left it empty,
\* and the chunks show the commands.
C17_Witness ==
    /\ sim_pc = "cleanup_changes_system"
    /\ tick = 1
    /\ commands = << >>
    /\ Len(drained) = MaxCommands
    /\ \A q \in DOMAIN chunks : chunks[q].changes # << >>

\* C18 as stated: in a Commit the change log of every chunk gains exactly one
\* entry for each command executed on it, whatever the variant.  The
\* executed commands are those conflict resolution keeps: for a cell with a
\* SetBlock in the queue the first SetBlock, for any other cell all of them.
C18_ExactlyOneEntry ==
    [][ (sim_pc = "commit_system" /\ sim_pc' = "cleanup_changes_system") =>
          LET executed ==
                  {k \in DOMAIN commands :
                      /\ commands[k].idx \in Cells
                      /\ LET sets == {j \in DOMAIN commands :
                                         /\ commands[j].idx = commands[k].idx
                                         /\ commands[j].type = "SetBlock"}
                         IN  sets # {} => (k \in sets /\ \A j \in sets : k <= j)}
          IN  \A q \in DOMAIN chunks :
                 Len(chunks'[q].changes)
                     = Len(chunks[q].changes) + Cardinality(executed)
      ]_vars

\* C18: what the change log of a chunk gains in a Commit, cell by cell.  For
\* a cell with a SetBlock in the queue: one SetVoxel entry and nothing else.
\* For any other cell: one SetVariant entry for each SetVariant,
\* IncrementVariant and DecrementVariant; one SetMoisture entry for each
\* SetMoisture; one SetTemp entry for each SetTemp and each AddHeat on a kind
\* of positive heat capacity, and with it one SetFlag entry for each of HOT
\* and COLD the new temperature flips; one SetFlag entry of another flag for
\* each AddFlag, RemoveFlag, Ignite and Extinguish; no entry for AddMoisture.
C18_EntriesPerCommand ==
    [][ (sim_pc = "commit_system" /\ sim_pc' = "cleanup_changes_system") =>
          \A q \in DOMAIN chunks : \A i \in Cells :
             LET gained == SelectSeq(
                     SubSeq(chunks'[q].changes, Len(chunks[q].changes) + 1,
                            Len(chunks'[q].changes)),
                     LAMBDA e : e.idx = i)
                 count(test(_)) ==
                     Cardinality({j \in DOMAIN gained : test(gained[j])})
                 queued(types) ==
                     Cardinality({k \in DOMAIN commands :
                                     /\ commands[k].idx = i
                                     /\ commands[k].type \in types})
                 is_voxel(e) == e.type = "SetVoxel"
                 is_variant(e) == e.type = "SetVariant"
                 is_moisture(e) == e.type = "SetMoisture"
                 is_temp(e) == e.type = "SetTemp"
                 is_temp_flag(e) ==
                     e.type = "SetFlag" /\ e.flag \in {"HOT", "COLD"}
                 is_other_flag(e) ==
                     e.type = "SetFlag" /\ e.flag \notin {"HOT", "COLD"}
                 temps == IF props(chunks[q].voxels[i]).heat_capacity > 0
                          THEN queued({"SetTemp", "AddHeat"})
                          ELSE queued({"SetTemp"})
             IN  IF queued({"SetBlock"}) > 0
                 THEN /\ Len(gained) = 1
                      /\ gained[1].type = "SetVoxel"
                 ELSE /\ count(is_voxel) = 0
                      /\ count(is_variant)
                             = queued({"SetVariant", "IncrementVariant",
                                       "DecrementVariant"})
                      /\ count(is_moisture) = queued({"SetMoisture"})
                      /\ count(is_temp) = temps
                      /\ count(is_temp_flag) <= 2 * temps
                      /\ \A j \in DOMAIN gained :
                            is_temp_flag(gained[j]) =>
                                /\ j < Len(gained)
                                /\ \/ is_temp(gained[j + 1])
                                   \/ /\ is_temp_flag(gained[j + 1])
                                      /\ j + 1 < Len(gained)
                                      /\ is_temp(gained[j + 2])
                      /\ count(is_other_flag)
                             = queued({"AddFlag", "RemoveFlag", "Ignite",
                                       "Extinguish"})
                      /\ Len(gained)
                             = count(is_variant) + count(is_moisture)
                                   + count(is_temp) + count(is_temp_flag)
                                   + count(is_other_flag)
      ]_vars

\* The first Commit has executed a SetTemp above the HOT threshold and an
\* AddMoisture on a cell: the change log holds the SetFlag entry of HOT and
\* the SetTemp entry, two entries for the first command and none for the
\* second.
C18_Witness ==
    /\ sim_pc = "cleanup_changes_system"
    /\ tick = 0
    /\ \E i \in CommandCells :
          /\ drained = << SetTemp(i, 500000), AddMoisture(i, 100) >>
          /\ \A q \in DOMAIN chunks :
                chunks[q].changes = << SetFlagChange(i, "HOT", TRUE),
                                       SetTempChange(i, 500000) >>

\* C19 as stated: after Commit needs_remesh of a chunk is TRUE exactly when
\* the change log gained in that Commit an entry BlockChange::needs_remesh
\* classifies as geometry-affecting, a SetVoxel or a SetVariant entry.
C19_RemeshIffGeometryChange ==
    [][ (sim_pc = "commit_system" /\ sim_pc' = "cleanup_changes_system") =>
          \A q \in DOMAIN chunks :
             LET gained == SubSeq(chunks'[q].changes,
                                  Len(chunks[q].changes) + 1,
                                  Len(chunks'[q].changes))
             IN  chunks'[q].needs_remesh
                     <=> \E j \in DOMAIN gained :
                            gained[j].type \in {"SetVoxel", "SetVariant"}
      ]_vars

\* C20: after cleanup_changes_system every resident chunk has an empty
\* change log, an empty dirty_blocks list and needs_remesh = FALSE, and its
\* voxels, dirty mark, flags, variants, thermal state and active sets are
\* those it had when Post began.
C20_PostClearsLogs ==
    [][ (sim_pc = "cleanup_changes_system"
            /\ sim_pc' = "thermal_diffusion_system") =>
          /\ DOMAIN chunks' = DOMAIN chunks
          /\ \A q \in DOMAIN chunks :
                /\ chunks'[q].changes = << >>
                /\ chunks'[q].dirty_blocks = << >>
                /\ chunks'[q].needs_remesh = FALSE
                /\ chunks'[q].voxels = chunks[q].voxels
                /\ chunks'[q].is_dirty = chunks[q].is_dirty
                /\ chunks'[q].flags = chunks[q].flags
                /\ chunks'[q].variant = chunks[q].variant
                /\ chunks'[q].thermal_state = chunks[q].thermal_state
                /\ chunks'[q].active_thermal = chunks[q].active_thermal
                /\ chunks'[q].active_burning = chunks[q].active_burning
                /\ chunks'[q].active_freezing = chunks[q].active_freezing
                /\ chunks'[q].active_melting = chunks[q].active_melting
      ]_vars

\* A tick has ended whose Commit replaced a block and heated a cell: the
\* chunks keep the new kind, the override and the active cell, and their
\* logs are empty.
C20_Witness ==
    /\ sim_pc = "thermal_diffusion_system"
    /\ tick = 1
    /\ \A q \in DOMAIN chunks :
          /\ chunks[q].changes = << >>
          /\ chunks[q].dirty_blocks = << >>
          /\ ~ chunks[q].needs_remesh
          /\ chunks[q].is_dirty
          /\ chunks[q].voxels # generate_chunk(q)
          /\ chunks[q].active_thermal # {}
          /\ DOMAIN chunks[q].thermal_state.temp_overrides # {}

---------------------------------------------------------------------------
(* Properties of the direct calls of ChunkData and VoxelWorld              *)

\* C21: a ChunkData::get with a coordinate outside [0, CHUNK_SIZE) on some
\* axis returns Air and changes nothing; a ChunkData::set with such a
\* coordinate leaves every chunk as it was, voxels and is_dirty included;
\* a get_voxel at a position that no resident chunk covers returns Air and
\* changes nothing; a set_voxel at such a position changes no chunk.
C21_OutOfBoundsHarmless ==
    [][ calls' = calls + 1 =>
          LET outside(c) == \/ c.x < 0 \/ c.x >= CHUNK_SIZE
                            \/ c.y < 0 \/ c.y >= CHUNK_SIZE
                            \/ c.z < 0 \/ c.z >= CHUNK_SIZE
              covers(q, p) ==
                  /\ q.x * CHUNK_SIZE <= p.x /\ p.x < (q.x + 1) * CHUNK_SIZE
                  /\ q.y * CHUNK_SIZE <= p.y /\ p.y < (q.y + 1) * CHUNK_SIZE
                  /\ q.z * CHUNK_SIZE <= p.z /\ p.z < (q.z + 1) * CHUNK_SIZE
              not_resident(p) == ~ \E q \in DOMAIN chunks : covers(q, p)
          IN  /\ (call'.op = "get" /\ outside(call')) =>
                    (ret' = "Air" /\ chunks' = chunks)
              /\ (call'.op = "set" /\ outside(call')) =>
                    /\ DOMAIN chunks' = DOMAIN chunks
                    /\ \A q \in DOMAIN chunks :
                          /\ chunks'[q].voxels = chunks[q].voxels
                          /\ chunks'[q].is_dirty = chunks[q].is_dirty
                          /\ chunks'[q] = chunks[q]
              /\ (call'.op = "get_voxel" /\ not_resident(call'.world_pos)) =>
                    (ret' = "Air" /\ chunks' = chunks)
              /\ (call'.op = "set_voxel" /\ not_resident(call'.world_pos)) =>
                    chunks' = chunks
      ]_vars

\* A set beyond the upper end of the x axis has returned and the chunk it
\* was called on is still clean, while a non-Air cell sits at the index the
\* coordinates would linearise to.
C21_Witness ==
    /\ call.op = "set"
    /\ call.x = CHUNK_SIZE /\ call.y = 0 /\ call.z = 0
    /\ call.kind = "Air"
    /\ ~ chunks[call.chunk_pos].is_dirty
    /\ chunks[call.chunk_pos].voxels[CHUNK_SIZE] # "Air"

\* C22: for the world position p of a get_voxel or set_voxel call, negative
\* coordinates included, the origin of from_world_pos(p) is componentwise
\* at most p, p minus that origin lies in [0, CHUNK_SIZE) on every axis
\* and is the local coordinate the call computed with rem_euclid, and no
\* other pair of a chunk position and an in-bounds local coordinate
\* addresses p.
C22_RoundTrip ==
    call.op \in {"get_voxel", "set_voxel"} =>
        LET p == call.world_pos
            l == call.locals
            o == world_origin(l.chunk_pos)
            span == (0 - 3) .. 3
        IN  /\ o.x <= p.x /\ o.y <= p.y /\ o.z <= p.z
            /\ p.x - o.x \in 0 .. (CHUNK_SIZE - 1)
            /\ p.y - o.y \in 0 .. (CHUNK_SIZE - 1)
            /\ p.z - o.z \in 0 .. (CHUNK_SIZE - 1)
            /\ p.x - o.x = l.local_x
            /\ p.y - o.y = l.local_y
            /\ p.z - o.z = l.local_z
            /\ \A qx \in span, qy \in span, qz \in span :
                 \A lx \in 0 .. (CHUNK_SIZE - 1), ly \in 0 .. (CHUNK_SIZE - 1),
                    lz \in 0 .. (CHUNK_SIZE - 1) :
                    ( /\ qx * CHUNK_SIZE + lx = p.x
                      /\ qy * CHUNK_SIZE + ly = p.y
                      /\ qz * CHUNK_SIZE + lz = p.z )
                    => ( /\ l.chunk_pos = ChunkPos(qx, qy, qz)
                         /\ l.local_x = lx /\ l.local_y = ly
                         /\ l.local_z = lz )

\* A get_voxel at a position that is negative on every axis and not a
\* multiple of the chunk edge on the x axis has returned.
C22_Witness ==
    /\ call.op = "get_voxel"
    /\ call.world_pos = [x |-> 0 - CHUNK_SIZE - 1, y |-> 0 - 1, z |-> 0 - 1]
    /\ call.locals.chunk_pos = ChunkPos(0 - 2, 0 - 1, 0 - 1)
    /\ call.locals.local_x = CHUNK_SIZE - 1

---------------------------------------------------------------------------
(* Properties of the direct calls of ThermalApi                            *)

\* C23: after set_temp(idx, t) on a chunk, when t is within TEMP_EPSILON of
\* the default temperature of the cell's kind the cell has no override and
\* reads the default; otherwise the cell reads t and is in active_thermal.
\* Every other cell of the chunk and every cell of every other chunk reads
\* what it read before.
C23_SetTempOverride ==
    [][ (calls' = calls + 1 /\ call'.op = "set_temp") =>
          LET q == call'.chunk_pos
              i == call'.idx
              t == call'.temp
              default_temp == props(chunks[q].voxels[i]).temperature
              reads(c, j) ==
                  IF c.thermal_state.some
                        /\ j \in DOMAIN c.thermal_state.temp_overrides
                  THEN c.thermal_state.temp_overrides[j]
                  ELSE props(c.voxels[j]).temperature
          IN  /\ IF Abs(t - default_temp) < TEMP_EPSILON
                 THEN /\ i \notin DOMAIN
                             chunks'[q].thermal_state.temp_overrides
                      /\ reads(chunks'[q], i) = default_temp
                 ELSE /\ reads(chunks'[q], i) = t
                      /\ i \in chunks'[q].active_thermal
              /\ DOMAIN chunks' = DOMAIN chunks
              /\ \A r \in DOMAIN chunks : \A j \in Cells :
                    (r # q \/ j # i) =>
                        reads(chunks'[r], j) = reads(chunks[r], j)
      ]_vars

\* A set_temp to a value within TEMP_EPSILON of the default of Stone, and
\* not the default, has returned on a Stone cell that an earlier call left
\* in active_thermal with an override; the override is gone.
C23_Witness ==
    /\ call.op = "set_temp"
    /\ call.temp = 12050
    /\ chunks[call.chunk_pos].voxels[call.idx] = "Stone"
    /\ call.idx \in chunks[call.chunk_pos].active_thermal
    /\ call.idx \notin
          DOMAIN chunks[call.chunk_pos].thermal_state.temp_overrides

---------------------------------------------------------------------------
(* Properties of the temperature field under the simulation stages         *)

\* C24 as stated: in every state of the simulation each stored override
\* differs from the default temperature of the cell's current kind by at
\* least TEMP_EPSILON.
C24_OverridesDeviate ==
    \A q \in DOMAIN chunks :
       \A i \in DOMAIN chunks[q].thermal_state.temp_overrides :
          Abs(chunks[q].thermal_state.temp_overrides[i]
                - props(chunks[q].voxels[i]).temperature) >= TEMP_EPSILON

\* C25 as stated: an add_heat(idx, h) with h > 0 on a cell whose kind has a
\* positive heat capacity leaves the cell reading more than before, namely
\* the old reading plus h / heat_capacity; on a cell whose kind has no
\* positive heat capacity it leaves the chunk as it was.
C25_AddHeatIncreases ==
    [][ (calls' = calls + 1 /\ call'.op = "add_heat" /\ call'.heat > 0) =>
          LET q == call'.chunk_pos
              i == call'.idx
              heat_capacity == props(chunks[q].voxels[i]).heat_capacity
              reads(c, j) ==
                  IF c.thermal_state.some
                        /\ j \in DOMAIN c.thermal_state.temp_overrides
                  THEN c.thermal_state.temp_overrides[j]
                  ELSE props(c.voxels[j]).temperature
          IN  IF heat_capacity > 0
              THEN /\ reads(chunks'[q], i) > reads(chunks[q], i)
                   /\ reads(chunks'[q], i)
                        = reads(chunks[q], i)
                            + Quot(call'.heat, heat_capacity)
              ELSE chunks' = chunks
      ]_vars

---------------------------------------------------------------------------
(* Properties of the mesh of a chunk                                       *)

\* C26: in the mesh build_chunk_mesh_async returns, the index buffer is a
\* sequence of groups of six indices that all name vertices of the mesh,
\* each group is two triangles over the four corners of one face of one
\* cell with the normal of that face, and the face of cell i in direction
\* d has exactly one group when cell i is not Air, the cell beside it (in
\* the chunk, else in the boundary slice supplied for that side, else Air)
\* is transparent and the two are not both Water, and has no group
\* otherwise; an Air cell has none.
C26_FaceRule ==
    call.op = "build_chunk_mesh_async" =>
        LET voxels == call.input.voxels
            edges == call.input.neighbor_edges
            mesh == ret
            dirs == { << 1, 0, 0 >>, << 0 - 1, 0, 0 >>, << 0, 1, 0 >>,
                      << 0, 0 - 1, 0 >>, << 0, 0, 1 >>, << 0, 0, 0 - 1 >> }
            X(i) == i % CHUNK_SIZE
            Z(i) == (i \div CHUNK_SIZE) % CHUNK_SIZE
            Y(i) == i \div (CHUNK_SIZE * CHUNK_SIZE)
            inside(x, y, z) == /\ x \in 0 .. (CHUNK_SIZE - 1)
                               /\ y \in 0 .. (CHUNK_SIZE - 1)
                               /\ z \in 0 .. (CHUNK_SIZE - 1)
            slice(edge, j) == IF edge.some THEN edge.value[j] ELSE "Air"
            beside(i, d) ==
                LET x == X(i) + d[1]
                    y == Y(i) + d[2]
                    z == Z(i) + d[3]
                IN  IF inside(x, y, z)
                    THEN voxels[(y * CHUNK_SIZE * CHUNK_SIZE)
                                  + (z * CHUNK_SIZE) + x]
                    ELSE IF x = CHUNK_SIZE
                         THEN slice(edges.pos_x, Y(i) * CHUNK_SIZE + Z(i))
                    ELSE IF x = 0 - 1
                         THEN slice(edges.neg_x, Y(i) * CHUNK_SIZE + Z(i))
                    ELSE IF z = CHUNK_SIZE
                         THEN slice(edges.pos_z, Y(i) * CHUNK_SIZE + X(i))
                    ELSE IF z = 0 - 1
                         THEN slice(edges.neg_z, Y(i) * CHUNK_SIZE + X(i))
                    ELSE "Air"
            transparent(k) ==
                k \in {"Air", "Water", "Ice", "OakLeaves", "BirchLeaves",
                       "SpruceLeaves", "Flower", "TallGrass", "DeadBush"}
            wanted(i, d) ==
                /\ voxels[i] # "Air"
                /\ transparent(beside(i, d))
                /\ ~ (voxels[i] = "Water" /\ beside(i, d) = "Water")
            square(i, d) ==
                { p \in { << X(i) + a, Y(i) + b, Z(i) + c >> :
                            a \in 0 .. 1, b \in 0 .. 1, c \in 0 .. 1 } :
                    \A axis \in 1 .. 3 :
                       /\ d[axis] = 1 =>
                             p[axis] = << X(i), Y(i), Z(i) >>[axis] + 1
                       /\ d[axis] = 0 - 1 =>
                             p[axis] = << X(i), Y(i), Z(i) >>[axis] }
            groups == 0 .. ((Len(mesh.indices) \div 6) - 1)
            at(k, j) == mesh.vertices[mesh.indices[(6 * k) + j] + 1]
            corners(k) == {at(k, j).pos : j \in 1 .. 6}
            lowest(k) ==
                CHOOSE p \in corners(k) :
                   \A r \in corners(k) :
                      p[1] <= r[1] /\ p[2] <= r[2] /\ p[3] <= r[3]
            step(c) == IF c = 1 THEN 1 ELSE 0
            face_of(k) ==
                LET d == at(k, 1).normal
                    p == lowest(k)
                    x == p[1] - step(d[1])
                    y == p[2] - step(d[2])
                    z == p[3] - step(d[3])
                IN  << (y * CHUNK_SIZE * CHUNK_SIZE) + (z * CHUNK_SIZE) + x,
                       d >>
            shown == {face_of(k) : k \in groups}
        IN  /\ Len(mesh.indices) % 6 = 0
            /\ \A m \in DOMAIN mesh.indices :
                  mesh.indices[m] \in 0 .. (Len(mesh.vertices) - 1)
            /\ \A k \in groups :
                  /\ Cardinality({mesh.indices[(6 * k) + j] : j \in 1 .. 3})
                        = 3
                  /\ Cardinality({mesh.indices[(6 * k) + j] : j \in 4 .. 6})
                        = 3
                  /\ Cardinality({mesh.indices[(6 * k) + j] : j \in 1 .. 6})
                        = 4
                  /\ \A j \in 1 .. 6 : at(k, j).normal = face_of(k)[2]
                  /\ face_of(k)[1] \in Cells
                  /\ face_of(k)[2] \in dirs
                  /\ corners(k) = square(face_of(k)[1], face_of(k)[2])
            /\ Cardinality(shown) = Cardinality(groups)
            /\ shown = {f \in Cells \X dirs : wanted(f[1], f[2])}

\* The mesh of a chunk with a Water cell on top of a Water cell, a Stone
\* cell elsewhere and boundary slices on all four sides has been built and
\* is not empty.
C26_Witness ==
    /\ call.op = "build_chunk_mesh_async"
    /\ call.input.voxels[0] = "Water"
    /\ call.input.voxels[CHUNK_SIZE * CHUNK_SIZE] = "Water"
    /\ \E i \in Cells : call.input.voxels[i] = "Stone"
    /\ call.input.neighbor_edges.pos_x.some
    /\ call.input.neighbor_edges.neg_z.some
    /\ Len(ret.indices) > 0

---------------------------------------------------------------------------
(* C27 as stated: every tree of the terrain is complete across chunk       *)
(* boundaries.  For each trunk or leaf block of a tree that the landscape  *)
(* places, the chunk that contains the block's world position holds the    *)
(* block after generate_chunk.  The tree is taken from the landscape       *)
(* alone: trunk from height + 1 up, the leaf layers around its top,        *)
(* unclipped.                                                              *)
C27_TreesComplete ==
    call.op = "generate_chunk" =>
        LET land == call.land
            q == call.chunk_pos
            h == land.height
            tx == land.tree_at[1]
            tz == land.tree_at[2]
            placed == /\ h >= 32
                      /\ \/ land.climate = "Forest" /\ land.noise > 880
                         \/ land.climate = "BirchForest" /\ land.noise > 920
                         \/ land.climate = "Plains" /\ land.noise > 994
            trunk_h == IF land.climate = "BirchForest" THEN 6 ELSE 5
            log == IF land.climate = "BirchForest" THEN "BirchLog"
                   ELSE "OakLog"
            leaves == IF land.climate = "BirchForest" THEN "BirchLeaves"
                      ELSE "OakLeaves"
            is_trunk(x, y, z) ==
                /\ x = tx /\ z = tz
                /\ y >= h + 1 /\ y < h + 1 + trunk_h
            is_leaf(x, y, z) ==
                LET dy == y - (h + 1)
                    r == IF dy >= trunk_h THEN 1 ELSE 2
                IN  /\ dy >= trunk_h - 2 /\ dy < trunk_h + 2
                    /\ Abs(x - tx) <= r /\ Abs(z - tz) <= r
                    /\ Abs(x - tx) + Abs(z - tz) <= r + 1
                    /\ ~ (x = tx /\ z = tz /\ dy < trunk_h)
        IN  placed =>
              \A lx \in 0 .. (CHUNK_SIZE - 1), ly \in 0 .. (CHUNK_SIZE - 1),
                 lz \in 0 .. (CHUNK_SIZE - 1) :
                 LET x == (q.x * CHUNK_SIZE) + lx
                     y == (q.y * CHUNK_SIZE) + ly
                     z == (q.z * CHUNK_SIZE) + lz
                     held == ret[(ly * CHUNK_SIZE * CHUNK_SIZE)
                                   + (lz * CHUNK_SIZE) + lx]
                 IN  /\ is_trunk(x, y, z) => held = log
                     /\ is_leaf(x, y, z) => held = leaves

(* C28 as stated: generate_chunk stamps a surface tree at a column only if *)
(* the column's height is above the water level and should_place_tree      *)
(* holds for its biome, and the lowest trunk block stands in the cell      *)
(* directly above the column's surface block: wherever the generated chunk *)
(* holds a log, the column qualifies, and every cell of the chunk between  *)
(* the surface block (at height - 1) and that log is a log too.            *)
C28_TreeOnSurface ==
    call.op = "generate_chunk" =>
        LET land == call.land
            q == call.chunk_pos
            h == land.height
            qualifies(x, z) ==
                /\ h > 30
                /\ << x, z >> = land.tree_at
                /\ h >= 32
                /\ \/ land.climate = "Forest" /\ land.noise > 880
                   \/ land.climate = "BirchForest" /\ land.noise > 920
                   \/ land.climate = "Plains" /\ land.noise > 994
            Logs == {"OakLog", "BirchLog", "SpruceLog"}
            at(lx, ly, lz) == ret[(ly * CHUNK_SIZE * CHUNK_SIZE)
                                    + (lz * CHUNK_SIZE) + lx]
        IN  \A lx \in 0 .. (CHUNK_SIZE - 1), ly \in 0 .. (CHUNK_SIZE - 1),
               lz \in 0 .. (CHUNK_SIZE - 1) :
               at(lx, ly, lz) \in Logs =>
                  /\ qualifies((q.x * CHUNK_SIZE) + lx,
                               (q.z * CHUNK_SIZE) + lz)
                  /\ \A my \in 0 .. ly :
                        (q.y * CHUNK_SIZE) + my >= h
                            => at(lx, my, lz) \in Logs

---------------------------------------------------------------------------
(* C29: within one thermal_diffusion_system pass every heat flow is        *)
(* computed from the temperatures that held when the pass began.  The      *)
(* temperature of each cell after the pass is the one that follows from    *)
(* its own start temperature and the start temperatures of its neighbours, *)
(* whatever the order in which the buffered heat is applied, and           *)
(* heat_buffer is empty when the pass ends.                                *)
C29_FlowsFromStartTemperatures ==
    [][(sim_pc = "thermal_diffusion_system" /\ sim_pc' = "heat_source_system")
        => \A q \in DOMAIN chunks :
              LET c == chunks[q]
                  d == chunks'[q]
                  temp_in(ch, i) ==
                      IF i \in DOMAIN ch.thermal_state.temp_overrides
                      THEN ch.thermal_state.temp_overrides[i]
                      ELSE props(ch.voxels[i]).temperature
                  flow(i) == heat_delta_of(c, c.thermal_state, i)
                  expected(i) ==
                      LET p == props(c.voxels[i])
                          t == temp_in(c, i) + Quot(flow(i), p.heat_capacity)
                      IN  IF i \in c.active_thermal /\ Abs(flow(i)) > 1
                             /\ p.heat_capacity > 0
                          THEN IF Abs(t - p.temperature) < TEMP_EPSILON
                               THEN p.temperature ELSE t
                          ELSE temp_in(c, i)
              IN  /\ DOMAIN d.thermal_state.heat_buffer = {}
                  /\ \A i \in Cells : temp_in(d, i) = expected(i)]_vars

\* A pass has just moved heat into two face-adjacent cells of one chunk.
C29_Witness ==
    /\ sim_pc = "heat_source_system"
    /\ \E q \in DOMAIN chunks : \E a, b \in Cells :
          /\ Abs(idx_to_xyz(a).x - idx_to_xyz(b).x)
                + Abs(idx_to_xyz(a).y - idx_to_xyz(b).y)
                + Abs(idx_to_xyz(a).z - idx_to_xyz(b).z) = 1
          /\ \E m, n \in DOMAIN chunks[q].changes :
                /\ chunks[q].changes[m].type = "SetTemp"
                /\ chunks[q].changes[m].idx = a
                /\ chunks[q].changes[n].type = "SetTemp"
                /\ chunks[q].changes[n].idx = b
          /\ chunks[q].thermal_state.heat_buffer = EmptyMap

(* C30 as stated: after a thermal_diffusion_system pass, a cell that was   *)
(* in active_thermal when the pass began is still in it if and only if its *)
(* temperature deviates from the default of its kind by more than 1.0, or  *)
(* it is BURNING, or one of its face-adjacent cells inside the chunk is    *)
(* BURNING or differs from it in temperature by more than                  *)
(* GRADIENT_THRESHOLD: the adjacency of the decision is the in-chunk       *)
(* 6-neighbourhood of the diffusion.                                       *)
C30_StaysActiveIff ==
    [][(sim_pc = "thermal_diffusion_system" /\ sim_pc' = "heat_source_system")
        => \A q \in DOMAIN chunks :
              LET d == chunks'[q]
                  temp(i) ==
                      IF i \in DOMAIN d.thermal_state.temp_overrides
                      THEN d.thermal_state.temp_overrides[i]
                      ELSE props(d.voxels[i]).temperature
                  at(i) == [x |-> i % CHUNK_SIZE,
                            z |-> (i \div CHUNK_SIZE) % CHUNK_SIZE,
                            y |-> i \div (CHUNK_SIZE * CHUNK_SIZE)]
                  adjacent(i, n) ==
                      Abs(at(i).x - at(n).x) + Abs(at(i).y - at(n).y)
                          + Abs(at(i).z - at(n).z) = 1
                  keeps(i) ==
                      \/ Abs(temp(i) - props(d.voxels[i]).temperature) > 1000
                      \/ "BURNING" \in d.flags[i]
                      \/ \E n \in Cells :
                            /\ adjacent(i, n)
                            /\ \/ "BURNING" \in d.flags[n]
                               \/ Abs(temp(n) - temp(i)) > 5000
              IN  \A i \in chunks[q].active_thermal :
                     (i \in d.active_thermal) <=> keeps(i)]_vars

---------------------------------------------------------------------------
(* C31: for a cell with no SetBlock in the drained queue, Commit executes  *)
(* the cell's commands in the order they were enqueued, and the kind,      *)
(* flags, variant, temperature and active-set membership of every cell     *)
(* after Commit are determined by the state before Commit and the queue:   *)
(* they are what the cell's own commands, in queue order (or its first     *)
(* SetBlock alone), make of the cell, whatever the order in which the      *)
(* groups of the hash map are visited.                                     *)
C31_CommitDeterministic ==
    [][(sim_pc = "commit_system" /\ sim_pc' = "cleanup_changes_system")
        => \A q \in DOMAIN chunks : \A i \in Cells :
              LET own == SelectSeq(commands, LAMBDA c : c.idx = i)
                  blocks == SelectSeq(own, LAMBDA c : c.type = "SetBlock")
                  kept == IF blocks # << >> THEN << blocks[1] >> ELSE own
                  e == execute_all(chunks[q], kept)
                  d == chunks'[q]
                  temp(ch) ==
                      IF i \in DOMAIN ch.thermal_state.temp_overrides
                      THEN ch.thermal_state.temp_overrides[i]
                      ELSE props(ch.voxels[i]).temperature
              IN  /\ d.voxels[i] = e.voxels[i]
                  /\ d.flags[i] = e.flags[i]
                  /\ d.variant[i] = e.variant[i]
                  /\ temp(d) = temp(e)
                  /\ (i \in d.active_thermal) = (i \in e.active_thermal)
                  /\ (i \in d.active_burning) = (i \in e.active_burning)
                  /\ (i \in d.active_freezing) = (i \in e.active_freezing)
                  /\ (i \in d.active_melting) = (i \in e.active_melting)]_vars

\* Commit has just executed two commands on one cell whose order shows:
\* SetVariant and then IncrementVariant leave the variant one above the
\* one that was set.
C31_Witness ==
    /\ sim_pc = "cleanup_changes_system"
    /\ Len(drained) = 2
    /\ drained[1].type = "SetVariant"
    /\ drained[2].type = "IncrementVariant"
    /\ drained[1].idx = drained[2].idx
    /\ \A q \in DOMAIN chunks :
          chunks[q].variant[drained[1].idx] = drained[1].variant + 1

(* C38 as stated: a command submitted with CommandQueue::push(chunk_pos,   *)
(* cmd) is applied by Commit to the chunk at chunk_pos only, every other   *)
(* resident chunk staying as it is.  Whatever position the one command of  *)
(* a queue was pushed with, the Commit that drains it then changes at most *)
(* one chunk.                                                              *)
C38_OnlyTheAddressedChunk ==
    [][(sim_pc = "commit_system" /\ sim_pc' = "cleanup_changes_system"
            /\ Len(commands) = 1)
        => \E q \in DOMAIN chunks :
              \A r \in DOMAIN chunks \ {q} : chunks'[r] = chunks[r]]_vars

(* C40 as stated: after any sequence of committed commands the             *)
(* active_burning set of a chunk is exactly the set of the cells whose     *)
(* flags contain BURNING.                                                  *)
C40_BurningSetMatchesFlags ==
    \A q \in DOMAIN chunks :
        chunks[q].active_burning
            = {i \in Cells : "BURNING" \in chunks[q].flags[i]}

(* C39 as stated: in every state reachable through set_temp, add_heat,     *)
(* diffusion passes and commits, every cell that holds a thermal override  *)
(* is in active_thermal.                                                   *)
C39_OverridesAreActive ==
    \A q \in DOMAIN chunks :
        DOMAIN chunks[q].thermal_state.temp_overrides
            \subseteq chunks[q].active_thermal

(* C33 as stated: at the end of every frame a coordinate is in at most one *)
(* of to_load, an in-flight task, the completed buffer and chunks, and at  *)
(* most one task per coordinate is in flight.                              *)
C33_OnePlacePerCoordinate ==
    pc = "update_chunk_loading" =>
        /\ \A i, j \in DOMAIN tasks :
              tasks[i].chunk_pos = tasks[j].chunk_pos => i = j
        /\ \A q \in Range(to_load) \cup DOMAIN chunks
                  \cup {tasks[i].chunk_pos : i \in DOMAIN tasks}
                  \cup {completed[i].chunk_pos : i \in DOMAIN completed} :
              (IF q \in Range(to_load) THEN 1 ELSE 0)
                + (IF \E i \in DOMAIN tasks : tasks[i].chunk_pos = q
                   THEN 1 ELSE 0)
                + (IF \E i \in DOMAIN completed : completed[i].chunk_pos = q
                   THEN 1 ELSE 0)
                + (IF q \in DOMAIN chunks THEN 1 ELSE 0) <= 1

(* C34 as stated: while a coordinate stays resident its ChunkData is never *)
(* replaced by the streaming scheduler.  A batch apply inserts voxel data  *)
(* only for coordinates that had no entry in chunks when the batch began.  *)
C34_ResidentNeverReplaced ==
    [][(pc = "apply_chunk_replacements" /\ completed # << >>
            /\ completed' = << >>)
        => \A i \in DOMAIN completed :
              completed[i].chunk_pos \notin DOMAIN chunks]_vars

(* C35 as stated: no entity leaks.  At the end of every frame each live    *)
(* entity is a placeholder recorded in the placeholder map or held by an   *)
(* in-flight task or a buffered result, the tracking entity of an          *)
(* in-flight task, or the render entity stored in loaded_chunks for its    *)
(* coordinate; and no coordinate has two live placeholders.                *)
C35_NoEntityLeak ==
    pc = "update_chunk_loading" =>
        /\ \A e \in entities :
              \/ \E q \in DOMAIN placeholders : placeholders[q] = e
              \/ \E i \in DOMAIN tasks :
                    tasks[i].entity = e \/ tasks[i].placeholder_entity = e
              \/ \E i \in DOMAIN completed :
                    completed[i].placeholder_entity = e
              \/ \E q \in DOMAIN loaded_chunks : loaded_chunks[q] = e
        /\ \A q \in DOMAIN placeholders
                  \cup {tasks[i].chunk_pos : i \in DOMAIN tasks}
                  \cup {completed[i].chunk_pos : i \in DOMAIN completed} :
              Cardinality(
                  entities \cap
                    ((IF q \in DOMAIN placeholders THEN {placeholders[q]}
                      ELSE {})
                     \cup {tasks[i].placeholder_entity :
                             i \in {j \in DOMAIN tasks :
                                      tasks[j].chunk_pos = q}}
                     \cup {completed[i].placeholder_entity :
                             i \in {j \in DOMAIN completed :
                                      completed[j].chunk_pos = q}})) <= 1

(* C36 as stated: no entity is despawned more than once.  The placeholder  *)
(* a batch apply despawns is alive when the batch begins, and the          *)
(* placeholder of a result that waits in the completed buffer is left      *)
(* alive by cleanup_orphan_placeholders.                                   *)
C36_DespawnedOnce ==
    [][/\ (pc = "apply_chunk_replacements" /\ completed # << >>
              /\ completed' = << >>)
          => \A i \in DOMAIN completed :
                completed[i].placeholder_entity \in entities
       /\ pc = "cleanup_orphan_placeholders"
          => \A i \in DOMAIN completed :
                completed[i].placeholder_entity \in entities
                    => completed[i].placeholder_entity \in entities']_vars

(* C37: at the end of every frame active_tasks is the number of tracked    *)
(* tasks.  A dispatch raises it by the number of tasks it adds, a          *)
(* completion pass and an unload lower it by the number of tasks they      *)
(* remove, and neither subtraction is cut off at zero.                     *)
C37_ActiveTasksCountsTasks ==
    [][/\ pc' = "update_chunk_loading" => active_tasks' = Len(tasks')
       /\ pc = "spawn_mesh_tasks"
          => /\ Len(tasks') >= Len(tasks)
             /\ active_tasks' = active_tasks + (Len(tasks') - Len(tasks))
       /\ pc \in {"handle_completed_mesh_tasks", "process_chunk_unload"}
          => /\ Len(tasks') <= Len(tasks)
             /\ active_tasks >= Len(tasks) - Len(tasks')
             /\ active_tasks' = active_tasks - (Len(tasks) - Len(tasks'))]_vars

\* The end of a later frame with one task still in flight and the result
\* of a finished one in the completed buffer.
C37_Witness ==
    /\ pc = "cleanup_orphan_placeholders"
    /\ frame >= 1
    /\ Len(tasks) = 1
    /\ active_tasks = 1
    /\ completed # << >>

---------------------------------------------------------------------------
(* The streaming scheduler for an observer at rest                         *)

\* update_chunk_loading in a run whose frames are not counted.
update_chunk_loading_at_rest ==
    /\ pc = "update_chunk_loading"
    /\ LET center_chunk == center_chunk_of(camera)
           chunks_to_add ==
               sort_by_distance(chunks_to_add_of(center_chunk), center_chunk)
       IN  /\ pending_placeholders' = pending_placeholders \o chunks_to_add
           /\ to_load' = resort_queue(to_load \o chunks_to_add, center_chunk)
           /\ to_unload' = push_unloads(to_unload,
                                        KeysInOrder(DOMAIN chunks),
                                        center_chunk)
    /\ pc' = "spawn_batch_placeholders"
    /\ UNCHANGED << camera, chunks, loaded_chunks, active_tasks, placeholders,
                    tasks, completed, timer, entities, next_entity,
                    placeholder_alive, frame, moved >>
    /\ UNCHANGED << simVars, apiVars >>

\* The completion pass of a run whose workers are quick: every task polled
\* has finished.
handle_completed_mesh_tasks_all_finished ==
    handle_completed_mesh_tasks /\ tasks' = << >>

\* The batch pass of a run whose frames all take a third of the batch
\* interval.
apply_chunk_replacements_steady ==
    /\ apply_chunk_replacements
    /\ completed' # << >> => timer' = timer + (interval \div 3)
    /\ (completed # << >> /\ completed' = << >>)
           => should_replace(Len(completed), timer + (interval \div 3))

AtRestNext ==
    \/ update_chunk_loading_at_rest
    \/ spawn_batch_placeholders
    \/ spawn_mesh_tasks
    \/ handle_completed_mesh_tasks_all_finished
    \/ apply_chunk_replacements_steady
    \/ process_chunk_unload
    \/ cleanup_orphan_placeholders

\* The system the chain of VoxelPlugin::build runs after system s; after the
\* last one the next frame begins with the first.
next_system(s) ==
    CASE s = "update_chunk_loading" -> "spawn_batch_placeholders"
      [] s = "spawn_batch_placeholders" -> "spawn_mesh_tasks"
      [] s = "spawn_mesh_tasks" -> "handle_completed_mesh_tasks"
      [] s = "handle_completed_mesh_tasks" -> "apply_chunk_replacements"
      [] s = "apply_chunk_replacements" -> "process_chunk_unload"
      [] s = "process_chunk_unload" -> "cleanup_orphan_placeholders"
      [] s = "cleanup_orphan_placeholders" -> "update_chunk_loading"

\* The schedule hands control to the next system of the chain.
run_next_system == pc' = next_system(pc)

\* The Update chain runs every frame, one system after the other, for as
\* long as the application runs.
AtRestSpec == Init /\ [][AtRestNext]_vars /\ WF_pc(run_next_system)

(* C32 as stated: with the observer at rest, frame time advancing and      *)
(* every task finishing, from some frame on every coordinate in range and  *)
(* in the frustum is resident in chunks, to_load, pending_placeholders,    *)
(* the task table and the completed buffer are empty, and no placeholder   *)
(* entity is alive.                                                        *)
C32_SettlesWithEverythingResident ==
    <>[](/\ \A q \in Range(LoopCoords(center_chunk_of(camera))) :
               is_chunk_in_frustum(q, camera) => q \in DOMAIN chunks
         /\ to_load = << >>
         /\ pending_placeholders = << >>
         /\ tasks = << >>
         /\ completed = << >>
         /\ placeholder_alive = {})

=============================================================================
